---- MODULE Spec2Model ----
(***************************************************************************)
(* A model of anchor-pki's autocert package: the identifier policies, the  *)
(* renewal rules and the certificate Manager (memory map, disk cache, ACME *)
(* provisioning with fallback), sequentially and under concurrent callers. *)
(*                                                                         *)
(* Representation.  A Python str is a sequence of one-character strings,   *)
(* so "aa.bb" is <<"a","a",".","b","b">>.  A value that may be None is a   *)
(* sequence of length 0 (None) or 1 (the value).  Timestamps and durations *)
(* are integers, in seconds.                                               *)
(***************************************************************************)
EXTENDS Integers, Sequences, FiniteSets, TLC

VARIABLES
    configuration,          \* Manager.configuration (fixed after construction)
    managed_certificates,   \* Manager.managed_certificates: common name -> certificate
    cache,                  \* the diskcache store under cache_dir: key -> bundle
    next_serial,            \* serial the CA gives to the next certificate it issues
    history,                \* what this Manager instance has provisioned so far
    call,                   \* the last completed call: its arguments and outcome
    threads,                \* concurrent managed_certificate callers
    bundle,                 \* a PEMBundle, the temporary files and its caller's list
    work_dir                \* the files under work_dir: file name -> content

vars == <<configuration, managed_certificates, cache, next_serial, history, call, threads,
          bundle, work_dir>>

None == <<>>
Some(v) == <<v>>

\* ------------------------------------------------------------------ strings

LowerAlpha == <<"a","b","c","d","e","f","g","h","i","j","k","l","m",
                "n","o","p","q","r","s","t","u","v","w","x","y","z">>
UpperAlpha == <<"A","B","C","D","E","F","G","H","I","J","K","L","M",
                "N","O","P","Q","R","S","T","U","V","W","X","Y","Z">>
Digits == <<"0","1","2","3","4","5","6","7","8","9">>

Range(s) == {s[i] : i \in DOMAIN s}

\* str.lower(), one character
LowerChar(c) ==
    IF \E i \in DOMAIN UpperAlpha : UpperAlpha[i] = c
    THEN LowerAlpha[CHOOSE i \in DOMAIN UpperAlpha : UpperAlpha[i] = c]
    ELSE c

\* str.lower()
Lower(s) == [i \in DOMAIN s |-> LowerChar(s[i])]

RECURSIVE Split(_, _)
\* str.split(sep) for a one-character separator: "" splits to [""]
Split(s, sep) ==
    IF \A i \in DOMAIN s : s[i] # sep
    THEN <<s>>
    ELSE LET k == CHOOSE i \in DOMAIN s :
                      s[i] = sep /\ \A j \in 1..(i - 1) : s[j] # sep
         IN  <<SubSeq(s, 1, k - 1)>> \o Split(SubSeq(s, k + 1, Len(s)), sep)

RECURSIVE Join(_, _)
\* sep.join(parts)
Join(parts, sep) ==
    IF Len(parts) = 0 THEN <<>>
    ELSE IF Len(parts) = 1 THEN parts[1]
    ELSE parts[1] \o <<sep>> \o Join(Tail(parts), sep)

\* str.count(".")
CountDots(s) == Cardinality({i \in DOMAIN s : s[i] = "."})

\* str.removeprefix("*.")
RemoveSplatPrefix(s) ==
    IF Len(s) >= 2 /\ s[1] = "*" /\ s[2] = "." THEN SubSeq(s, 3, Len(s)) ELSE s

\* the Python value None where a str is expected: the one value of the model that
\* is not a sequence of single characters
NoneValue == <<"None">>

\* isinstance(x, str)
IsStr(x) == x # NoneValue

\* ------------------------------------------------------------ policy checks

IsAlpha(c) == c \in Range(LowerAlpha) \cup Range(UpperAlpha)
IsAlphaNumeric(c) == IsAlpha(c) \/ c \in Range(Digits)
IsAlphaNumericHyphen(c) == IsAlphaNumeric(c) \/ c = "-"

\* ForHostname.DOMAIN_LABEL, anchored: ALPHA_NUMERIC ALPHA_NUMERIC_HYPHEN* ALPHA_NUMERIC
MatchesDomainLabel(l) ==
    /\ Len(l) >= 2
    /\ IsAlphaNumeric(l[1])
    /\ IsAlphaNumeric(l[Len(l)])
    /\ \A i \in 2..(Len(l) - 1) : IsAlphaNumericHyphen(l[i])

\* ForHostname.TOP_LEVEL_DOMAIN, anchored: ALPHA ALPHA_NUMERIC_HYPHEN* ALPHA_NUMERIC
MatchesTopLevelDomain(l) ==
    /\ Len(l) >= 2
    /\ IsAlpha(l[1])
    /\ IsAlphaNumeric(l[Len(l)])
    /\ \A i \in 2..(Len(l) - 1) : IsAlphaNumericHyphen(l[i])

\* ForHostname.handles: REGEX = ^((DOMAIN_LABEL\.)+)(TOP_LEVEL_DOMAIN)$ ; no
\* character class of the pattern holds ".", so the match is decided label by label
ForHostname_handles(description) ==
    LET parts == Split(description, ".")
    IN  /\ IsStr(description)
        /\ Len(parts) >= 2
        /\ \A i \in 1..(Len(parts) - 1) : MatchesDomainLabel(parts[i])
        /\ MatchesTopLevelDomain(parts[Len(parts)])

\* ForHostname.allow without str.lower() on either side
ForHostnameAllowExact(description, identifier) ==
    IsStr(identifier) /\ identifier = description

\* ForHostname.allow with self.hostname = description.lower()
ForHostname_allow(description, identifier) ==
    IsStr(identifier) /\ Lower(identifier) = Lower(description)

\* ForWildcardHostname.DOMAIN_LABEL_REGEX = ^DOMAIN_LABEL*$ (IGNORECASE): the star
\* binds to the last character class only, ALPHA_NUMERIC ALPHA_NUMERIC_HYPHEN* ALPHA_NUMERIC*
MatchesWildcardPrefix(l) ==
    /\ Len(l) >= 1
    /\ IsAlphaNumeric(l[1])
    /\ \A i \in 2..Len(l) : IsAlphaNumericHyphen(l[i])

\* ForWildcardHostname.handles
ForWildcardHostname_handles(description) ==
    LET parts == Split(description, ".")
    IN  IF ~IsStr(description) THEN FALSE
        ELSE IF Len(parts) < 2 \/ parts[1] # <<"*">>
        THEN FALSE
        ELSE ForHostname_handles(Join(Tail(parts), "."))

\* ForWildcardHostname.allow with self.suffix = ".".join(description.split(".")[1:])
ForWildcardHostname_allow(description, identifier) ==
    LET suffix == Join(Tail(Split(description, ".")), ".")
        parts  == Split(identifier, ".")
        prefix == parts[1]
    IN  IF ~IsStr(identifier) THEN FALSE
        ELSE IF prefix # <<"*">> /\ ~MatchesWildcardPrefix(prefix)
        THEN FALSE
        ELSE Lower(Join(Tail(parts), ".")) = suffix

\* --- ForIPAddress: ipaddress.ip_network(str), IPv4 (the model's strings hold no ":")

DigitValue(c) == (CHOOSE i \in DOMAIN Digits : Digits[i] = c) - 1

IsDigits(l) == Len(l) >= 1 /\ \A i \in DOMAIN l : l[i] \in Range(Digits)

RECURSIVE DecimalValue(_)
\* int(l) for a string of ASCII digits
DecimalValue(l) ==
    IF Len(l) = 0 THEN 0
    ELSE 10 * DecimalValue(SubSeq(l, 1, Len(l) - 1)) + DigitValue(l[Len(l)])

\* ipaddress.IPv4Address._parse_octet: 1 to 3 digits, no leading zero, at most 255
ValidOctet(l) ==
    /\ IsDigits(l)
    /\ Len(l) <= 3
    /\ (Len(l) > 1 => l[1] # "0")
    /\ DecimalValue(l) <= 255

\* ipaddress.IPv4Address._ip_int_from_string, as the four octets; None on ValueError
ParseIPv4Address(s) ==
    LET octets == Split(s, ".")
    IN  IF Len(octets) = 4 /\ \A i \in 1..4 : ValidOctet(octets[i])
        THEN Some([i \in 1..4 |-> DecimalValue(octets[i])])
        ELSE None

\* number of network bits of a /prefix that fall into octet i
OctetBits(prefix, i) ==
    LET left == prefix - 8 * (i - 1)
    IN  IF left <= 0 THEN 0 ELSE IF left >= 8 THEN 8 ELSE left

\* 2^(number of host bits in octet i)
HostSize(prefix, i) == 2 ^ (8 - OctetBits(prefix, i))

\* ipaddress._BaseV4._make_netmask for a string: a decimal prefix length, else a
\* dotted netmask, else a dotted hostmask; None on NetmaskValueError
ParsePrefix(m) ==
    IF IsDigits(m) /\ DecimalValue(m) <= 32
    THEN Some(DecimalValue(m))
    ELSE LET a == ParseIPv4Address(m)
             IsNetmask(k)  == \A i \in 1..4 : a[1][i] = 256 - HostSize(k, i)
             IsHostmask(k) == \A i \in 1..4 : a[1][i] = HostSize(k, i) - 1
         IN  IF a = None THEN None
             ELSE IF \E k \in 0..32 : IsNetmask(k)
             THEN Some(CHOOSE k \in 0..32 : IsNetmask(k))
             ELSE IF \E k \in 0..32 : IsHostmask(k)
             THEN Some(CHOOSE k \in 0..32 : IsHostmask(k))
             ELSE None

\* ipaddress.ip_network(s) (strict): [address, prefix], or None on ValueError
ParseIPNetwork(s) ==
    LET halves == Split(s, "/")
        a      == ParseIPv4Address(halves[1])
        p      == IF Len(halves) = 1 THEN Some(32) ELSE ParsePrefix(halves[2])
    IN  IF Len(halves) > 2 \/ a = None \/ p = None THEN None
        ELSE IF \E i \in 1..4 : a[1][i] % HostSize(p[1], i) # 0 THEN None
        ELSE Some([address |-> a[1], prefix |-> p[1]])

\* address in network (ipaddress._BaseNetwork.__contains__)
AddressInNetwork(address, net) ==
    \A i \in 1..4 :
        address[i] \div HostSize(net.prefix, i) = net.address[i] \div HostSize(net.prefix, i)

\* ipaddress._BaseNetwork.broadcast_address
BroadcastAddress(net) ==
    [i \in 1..4 |-> net.address[i] + HostSize(net.prefix, i) - 1]

\* Overlaps that looks for b inside a only
OverlapsInside(a, b) ==
    \/ AddressInNetwork(b.address, a)
    \/ AddressInNetwork(BroadcastAddress(b), a)

\* ipaddress._BaseNetwork.overlaps
Overlaps(a, b) ==
    \/ AddressInNetwork(b.address, a)
    \/ AddressInNetwork(BroadcastAddress(b), a)
    \/ AddressInNetwork(a.address, b)
    \/ AddressInNetwork(BroadcastAddress(a), b)

\* ForIPAddress.handles
ForIPAddress_handles(description) == ParseIPNetwork(description) # None

\* ForIPAddress.allow
ForIPAddress_allow(description, identifier) ==
    LET network == ParseIPNetwork(identifier)
    IN  IF network = None THEN FALSE
        ELSE Overlaps(ParseIPNetwork(description)[1], network[1])

\* -------------------------------------------------------- identifier policy

\* PolicyClass with ForWildcardHostname missing from policy_checks()
PolicyClassWithoutWildcard(description) ==
    IF ForIPAddress_handles(description) THEN "ForIPAddress"
    ELSE IF ForHostname_handles(description) THEN "ForHostname"
    ELSE "none"

\* IdentifierPolicy.__init__: the first of policy_checks() that handles the
\* description; "none" stands for PolicyCheckError
PolicyClass(description) ==
    IF ForIPAddress_handles(description) THEN "ForIPAddress"
    ELSE IF ForHostname_handles(description) THEN "ForHostname"
    ELSE IF ForWildcardHostname_handles(description) THEN "ForWildcardHostname"
    ELSE "none"

\* IdentifierPolicy.allow, for the policy built from description
PolicyAllow(description, identifier) ==
    CASE PolicyClass(description) = "ForIPAddress" ->
             ForIPAddress_allow(description, identifier)
      [] PolicyClass(description) = "ForHostname" ->
             ForHostname_allow(description, identifier)
      [] PolicyClass(description) = "ForWildcardHostname" ->
             ForWildcardHostname_allow(description, identifier)

\* IdentifierPolicy.deny
PolicyDeny(description, identifier) == ~PolicyAllow(description, identifier)

\* IdentifierPolicy(policy_description): the object, or the PolicyCheckError raised
IdentifierPolicy(policy_description) ==
    [raised |-> IF PolicyClass(policy_description) = "none"
                THEN "PolicyCheckError" ELSE "",
     policy_description |-> policy_description,
     policy |-> PolicyClass(policy_description)]

\* IdentifierPolicy.build; the argument is a single description
\* [kind |-> "str", val |-> s] or a list [kind |-> "list", val |-> xs]
IdentifierPolicy_build(arg) ==
    LET policy_descriptions == IF arg.kind = "str" THEN <<arg.val>> ELSE arg.val
    IN  IF \E i \in DOMAIN policy_descriptions :
               IdentifierPolicy(policy_descriptions[i]).raised # ""
        THEN [raised |-> "PolicyCheckError", policies |-> <<>>]
        ELSE [raised |-> "",
              policies |-> [i \in DOMAIN policy_descriptions |->
                                IdentifierPolicy(policy_descriptions[i])]]

\* ------------------------------------------ the explored identifiers

\* "aa.bb.cc", the host of the configured service
HOST == <<"a","a",".","b","b",".","c","c">>
\* "*.aa.bb.cc"
WILDCARD == <<"*",".","a","a",".","b","b",".","c","c">>
\* "xx.aa.bb.cc", a subdomain the wildcard covers
SUBDOMAIN == <<"x","x",".","a","a",".","b","b",".","c","c">>
\* "no.bb.cc", a host outside the service's names
INVALID == <<"n","o",".","b","b",".","c","c">>
\* "*.bb.cc", which has a single dot once the wildcard is stripped
WIDE == <<"*",".","b","b",".","c","c">>

\* the allow_identifiers lists explored: the tests' [HOST, "*." + HOST], and a list
\* whose only entry has fewer than two dots once stripped
AllowLists == { <<HOST, WILDCARD>>, <<WIDE>> }

\* "AA.bb.cc", HOST in another letter case
UPPERCASE == <<"A","A",".","b","b",".","c","c">>

\* names a caller asks for, and the extra identifiers it may pass
Names == {HOST, SUBDOMAIN, INVALID}
ExtraIdentifiers == {None, Some(<<INVALID>>)}

\* every policy description and every identifier the explorations use; EMPTY_NAME
\* is the server name "" of a TLS handshake
Descriptions == UNION {Range(a) : a \in AllowLists}
Identifiers == Names \cup {WILDCARD, UPPERCASE}

\* IdentifierPolicy.deny and Configuration.fallback_identifier, evaluated once for
\* every explored description, identifier and list
EMPTY_NAME == <<>>
PolicyDenyTable ==
    [d \in Descriptions |-> [x \in Identifiers \cup {EMPTY_NAME} |-> PolicyDeny(d, x)]]

\* ------------------------------------------------------------ configuration

RECURSIVE InsertByDotsUnstable(_, _)
\* InsertByDots for a sort that is not stable: x goes before the elements of equal key
InsertByDotsUnstable(sorted, x) ==
    IF Len(sorted) = 0 THEN <<x>>
    ELSE IF CountDots(Head(sorted)) < CountDots(x)
    THEN <<Head(sorted)>> \o InsertByDotsUnstable(Tail(sorted), x)
    ELSE <<x>> \o sorted

RECURSIVE InsertByDots(_, _)
\* one step of a stable sort on key = str.count("."): x goes after every element
\* whose key is not greater
InsertByDots(sorted, x) ==
    IF Len(sorted) = 0 THEN <<x>>
    ELSE IF CountDots(Head(sorted)) <= CountDots(x)
    THEN <<Head(sorted)>> \o InsertByDots(Tail(sorted), x)
    ELSE <<x>> \o sorted

RECURSIVE SortedByDots(_)
\* sorted(xs, key=lambda x: x.count(".")), which is stable
SortedByDots(xs) ==
    IF Len(xs) = 0 THEN <<>>
    ELSE InsertByDots(SortedByDots(SubSeq(xs, 1, Len(xs) - 1)), xs[Len(xs)])

\* Configuration.fallback_identifier; None stands for the IndexError of ordered[0]
\* on an empty list
FallbackIdentifierOf(allow_identifiers) ==
    LET de_wildcarded == [i \in DOMAIN allow_identifiers |->
                              RemoveSplatPrefix(allow_identifiers[i])]
        not_tld == SelectSeq(de_wildcarded, LAMBDA ident : CountDots(ident) >= 2)
        ordered == SortedByDots(not_tld)
    IN  IF Len(ordered) = 0 THEN None ELSE Some(ordered[1])

\* Manager.FALLBACK_RENEW_BEFORE_SECONDS
FALLBACK_RENEW_BEFORE_SECONDS == 86400

\* Configuration.DEFAULT_RENEW_BEFORE_SECONDS
DEFAULT_RENEW_BEFORE_SECONDS == 2592000

\* ------------------------------------------------- Manager: pure operations

\* Configuration.fallback_identifier, evaluated once for every explored list
FallbackTable == [a \in AllowLists |-> FallbackIdentifierOf(a)]

\* Manager.fallback_identifier
fallback_identifier == FallbackTable[configuration.allow_identifiers]

\* Manager.identifier_policies: one policy per description, kept as the descriptions
identifier_policies == configuration.allow_identifiers

RECURSIVE Dedupe(_, _)
\* list(dict.fromkeys(xs)): first occurrences, in order
Dedupe(xs, seen) ==
    IF Len(xs) = 0 THEN <<>>
    ELSE IF Head(xs) \in seen THEN Dedupe(Tail(xs), seen)
    ELSE <<Head(xs)>> \o Dedupe(Tail(xs), seen \cup {Head(xs)})

\* Manager.consolidate_identifiers; identifiers is None or Some(list)
consolidate_identifiers(common_name, identifiers) ==
    LET ids == IF identifiers = None THEN <<>> ELSE identifiers[1]
    IN  Dedupe(<<common_name>> \o ids, {})

\* DeniedByPolicies with any() for all(): denied as soon as one policy denies
DeniedByAnyPolicy(identifier) ==
    \E i \in DOMAIN identifier_policies :
        PolicyDenyTable[identifier_policies[i]][identifier]

\* the test of the loop in Manager.denied_identifiers:
\* all(policy.deny(identifier) for policy in self.identifier_policies)
DeniedByPolicies(identifier) ==
    \A i \in DOMAIN identifier_policies :
        PolicyDenyTable[identifier_policies[i]][identifier]

RECURSIVE DeniedLoop(_)
\* the loop of Manager.denied_identifiers over a list
DeniedLoop(identifiers) ==
    IF Len(identifiers) = 0 THEN <<>>
    ELSE (IF DeniedByPolicies(Head(identifiers)) THEN <<Head(identifiers)>> ELSE <<>>)
         \o DeniedLoop(Tail(identifiers))

\* Manager.denied_identifiers; the argument is [kind |-> "none"], a single
\* identifier [kind |-> "str", val |-> s] or a list [kind |-> "list", val |-> xs]
denied_identifiers(arg) ==
    IF arg.kind = "none" THEN <<>>
    ELSE IF arg.kind = "str" THEN DeniedLoop(<<arg.val>>)
    ELSE DeniedLoop(arg.val)

\* Manager.renew_before_seconds: configuration value, or the fallback when falsy
renew_before_seconds ==
    IF configuration.renew_before_seconds # 0
    THEN configuration.renew_before_seconds
    ELSE FALLBACK_RENEW_BEFORE_SECONDS

\* RenewAfterFromSeconds without the test that the timestamp lies in the validity window
RenewAfterFromSecondsUnchecked(cert, before_seconds) ==
    Some(cert.not_after - before_seconds)

\* RenewAfterFromSeconds with the lower end of the validity window tested alone
RenewAfterFromSecondsLowerOnly(cert, before_seconds) ==
    IF cert.not_before <= cert.not_after - before_seconds
    THEN Some(cert.not_after - before_seconds)
    ELSE None

\* Manager._renew_after_from_seconds
RenewAfterFromSeconds(cert, before_seconds) ==
    LET renew_after == cert.not_after - before_seconds
    IN  IF cert.not_before <= renew_after /\ renew_after <= cert.not_after
        THEN Some(renew_after)
        ELSE None

\* Manager._renew_after_from_fraction; the fraction is the rational
\* <<numerator, denominator>>, denominator > 0, and floor is exact
RenewAfterFromFraction(cert, before_fraction) ==
    LET num == before_fraction[1]
        den == before_fraction[2]
    IN  IF ~(0 <= num /\ num <= den) THEN None
        ELSE LET valid_span == cert.not_after - cert.not_before
                 before_seconds == (valid_span * num) \div den
             IN  RenewAfterFromSeconds(cert, before_seconds)

\* Manager._renew_after_fallback
RenewAfterFallback(cert) == RenewAfterFromSeconds(cert, FALLBACK_RENEW_BEFORE_SECONDS)

\* min() of a non-empty set of timestamps
MinOf(S) == CHOOSE m \in S : \A x \in S : m <= x

\* the list `posibilities` of Manager.needs_renewal
RenewalPossibilities(cert) ==
    << RenewAfterFromSeconds(cert, renew_before_seconds),
       RenewAfterFromFraction(cert, configuration.renew_before_fraction),
       RenewAfterFallback(cert),
       Some(cert.not_after) >>

\* RenewAfter with max() for min(): the latest candidate, which is not_after
RenewAfterLatest(cert) == cert.not_after

\* renew_after = min(filter(None, posibilities))
RenewAfter(cert) ==
    LET posibilities == RenewalPossibilities(cert)
    IN  MinOf({posibilities[i][1] : i \in {j \in DOMAIN posibilities : posibilities[j] # None}})

\* needs_renewal with the comparison turned round
NeedsRenewalBefore(cert, now) == now < RenewAfter(cert)

\* Manager.needs_renewal
needs_renewal(cert, now) == now > RenewAfter(cert)

\* ------------------------------------------------------- certificates, ACME

\* The CA's answer to one Manager.provision call (client.new_order and
\* client.finalize_order): an error, or a certificate valid from not_before to
\* not_after.  The CA numbers the certificates it issues consecutively.
AcmeAnswer(ok, not_before, not_after) ==
    [ok |-> ok, not_before |-> not_before, not_after |-> not_after]

\* Manager.provision: the JSON bundle {"cert_pem", "key_pem"} for a leaf whose
\* subject is the first consolidated identifier and whose subject alternative
\* names are the consolidated identifiers; None when the ACME exchange raises.
\* The key pair is fresh for every call and is named by the serial here.
provision(common_name, identifiers, acme, serial) ==
    LET all_identifiers == consolidate_identifiers(common_name, identifiers)
    IN  IF ~acme.ok THEN None
        ELSE Some([cert_pem |-> [serial_number    |-> serial,
                                 not_valid_before |-> acme.not_before,
                                 not_valid_after  |-> acme.not_after,
                                 subject_cn       |-> all_identifiers[1],
                                 san_dns          |-> all_identifiers],
                   key_pem  |-> serial])

\* ManagedCertificate.__init__ and its properties, from json.loads(cert_data)
ManagedCertificate(parsed_data) ==
    [serial      |-> parsed_data.cert_pem.serial_number,
     not_before  |-> parsed_data.cert_pem.not_valid_before,
     not_after   |-> parsed_data.cert_pem.not_valid_after,
     common_name |-> parsed_data.cert_pem.subject_cn,
     san_dns     |-> parsed_data.cert_pem.san_dns,
     key_pem     |-> parsed_data.key_pem]

\* the characters of the names here, in the order of their code points
CodePointOrder == <<"*", "-", ".">> \o Digits \o UpperAlpha \o LowerAlpha
Ord(c) == CHOOSE i \in DOMAIN CodePointOrder : CodePointOrder[i] = c

RECURSIVE StrLess(_, _)
\* a < b on Python str: lexicographic by code point
StrLess(a, b) ==
    IF Len(b) = 0 THEN FALSE
    ELSE IF Len(a) = 0 THEN TRUE
    ELSE IF Head(a) # Head(b) THEN Ord(Head(a)) < Ord(Head(b))
    ELSE StrLess(Tail(a), Tail(b))

RECURSIVE InsertSorted(_, _)
InsertSorted(xs, x) ==
    IF Len(xs) = 0 THEN <<x>>
    ELSE IF StrLess(x, Head(xs)) THEN <<x>> \o xs
    ELSE <<Head(xs)>> \o InsertSorted(Tail(xs), x)

RECURSIVE Sorted(_)
\* sorted() of a list of str
Sorted(xs) ==
    IF Len(xs) = 0 THEN <<>>
    ELSE InsertSorted(Sorted(SubSeq(xs, 1, Len(xs) - 1)), xs[Len(xs)])

\* ManagedCertificate.identifiers: the DNS names of the subject alternative
\* name extension, sorted
ManagedCertificate_identifiers(cert) == Sorted(cert.san_dns)

\* ManagedCertificate.all_names: the common name, then the other identifiers sorted
ManagedCertificate_all_names(cert) ==
    <<cert.common_name>> \o
    Sorted(SelectSeq(ManagedCertificate_identifiers(cert),
                     LAMBDA i : i # cert.common_name))

\* one entry of the record of provision calls a run made
ProvisionCall(common_name, identifiers, ok) ==
    [common_name |-> common_name, identifiers |-> identifiers, ok |-> ok]

\* Manager.provision_or_fallback.  acme1 and acme2 are the CA's answers to the first
\* and to the second provision call.  The result is the bundle returned (None when
\* the call raises), the exception raised ("" for none) and the provision calls made.
provision_or_fallback(common_name, identifiers, acme1, acme2, serial) ==
    LET first == provision(common_name, identifiers, acme1, serial)
    IN  IF first # None
        THEN [result |-> first, raised |-> "",
              provisions |-> <<ProvisionCall(common_name, identifiers, TRUE)>>]
        ELSE IF fallback_identifier = None
        THEN [result |-> None, raised |-> "IndexError",
              provisions |-> <<ProvisionCall(common_name, identifiers, FALSE)>>]
        ELSE LET second == provision(fallback_identifier[1], None, acme2, serial)
             IN  [result |-> second,
                  raised |-> IF second = None THEN "AcmeError" ELSE "",
                  provisions |-> <<ProvisionCall(common_name, identifiers, FALSE),
                                   ProvisionCall(fallback_identifier[1], None, second # None)>>]

\* dict.get
Get(dict, key) == IF key \in DOMAIN dict THEN Some(dict[key]) ELSE None

\* dict[key] = value
Put(dict, key, value) == (key :> value) @@ dict

\* dict without a key
Without(dict, key) == [k \in DOMAIN dict \ {key} |-> dict[k]]

\* Manager.cache_fetch: None without a cache_dir
cache_fetch(key) == IF configuration.cache_dir THEN Get(cache, key) ELSE None

\* Manager.cache_store: the store after the call; nothing is stored without a cache_dir
cache_store(key, value) == IF configuration.cache_dir THEN Put(cache, key, value) ELSE cache

\* Manager.managed_certificate, the fallback swap: "if denied_ids and len(denied_ids) > 0"
ShouldFallback(denied_ids) == Len(denied_ids) > 0

\* a value of the disk cache is a bundle, as provision returns it, or text that
\* is no bundle: [text |-> s]
Unparsed(s) == [text |-> s]
IsBundle(cert_data) == "cert_pem" \in DOMAIN cert_data

\* "if cert_data:" for a value of the disk cache
Truthy(cert_data) == IsBundle(cert_data) \/ cert_data.text # <<>>

\* json.loads(cert_data) and ManagedCertificate(**parsed_data): the exception they
\* raise, "" if none. "{}" loads and lacks the constructor's arguments, any other
\* text here is no JSON
LoadRaises(cert_data) ==
    IF IsBundle(cert_data) THEN ""
    ELSE IF cert_data.text = <<"{", "}">> THEN "TypeError"
    ELSE "JSONDecodeError"

\* Manager.managed_certificate, the disk-cache lookup: the exception that leaves
\* it, "" if none
DiskRaises(cert_data) ==
    IF cert_data = None THEN ""
    ELSE IF ~Truthy(cert_data[1]) THEN ""
    ELSE LoadRaises(cert_data[1])

\* Manager.managed_certificate, the memory lookup: the entry is returned when it
\* exists and does not need renewal
MemoryHit(entry, now) == entry # None /\ ~needs_renewal(entry[1], now)

\* DiskHit without the disk-cache lookup
DiskHitNever(cert_data, now) == FALSE

\* DiskHit without the renewal check on the cached bundle
DiskHitIgnoringRenewal(cert_data, now) == cert_data # None

\* Manager.managed_certificate, the disk-cache lookup: the parsed bundle is returned
\* when there is one and it does not need renewal
DiskHit(cert_data, now) ==
    /\ cert_data # None
    /\ Truthy(cert_data[1])
    /\ ~needs_renewal(ManagedCertificate(cert_data[1]), now)

\* Manager.managed_certificate, the memory map on the way out of a disk-cache hit:
\* the code returns without storing the parsed certificate
MemoryAfterDiskHit(common_name, managed_certificate) == managed_certificates

\* MemoryAfterProvision without the assignment to self.managed_certificates
MemoryAfterProvisionUnpublished(common_name, managed_certificate) == managed_certificates

\* Manager.managed_certificate, the memory map after provisioning
MemoryAfterProvision(common_name, managed_certificate) ==
    Put(managed_certificates, common_name, managed_certificate)

\* AfterProvision dropping the entry of the common name when provisioning raised
AfterProvisionEvicting(common_name, head, run) ==
    IF run.result = None
    THEN [path |-> "raise", raised |-> run.raised, result |-> None,
          provisions |-> run.provisions,
          memory |-> Without(managed_certificates, common_name), disk |-> cache] @@ head
    ELSE [path |-> "provision", raised |-> "",
          result |-> Some(ManagedCertificate(run.result[1])),
          provisions |-> run.provisions,
          memory |-> MemoryAfterProvision(common_name, ManagedCertificate(run.result[1])),
          disk |-> cache_store(common_name, run.result[1])] @@ head

\* Manager.managed_certificate from the call of provision_or_fallback on: the new
\* certificate is stored in memory and in the disk cache and returned, unless
\* provisioning raised
AfterProvision(common_name, head, run) ==
    IF run.result = None
    THEN [path |-> "raise", raised |-> run.raised, result |-> None,
          provisions |-> run.provisions,
          memory |-> managed_certificates, disk |-> cache] @@ head
    ELSE [path |-> "provision", raised |-> "",
          result |-> Some(ManagedCertificate(run.result[1])),
          provisions |-> run.provisions,
          memory |-> MemoryAfterProvision(common_name, ManagedCertificate(run.result[1])),
          disk |-> cache_store(common_name, run.result[1])] @@ head

\* Manager.managed_certificate from the memory lookup on, for the common name and
\* identifiers the fallback swap has left
AfterSwap(common_name, identifiers, head, now, acme1, acme2) ==
    IF MemoryHit(Get(managed_certificates, common_name), now)
    THEN [path |-> "memory", raised |-> "",
          result |-> Get(managed_certificates, common_name), provisions |-> <<>>,
          memory |-> managed_certificates, disk |-> cache] @@ head
    ELSE IF DiskRaises(cache_fetch(common_name)) # ""
    THEN [path |-> "raise", raised |-> DiskRaises(cache_fetch(common_name)),
          result |-> None, provisions |-> <<>>,
          memory |-> managed_certificates, disk |-> cache] @@ head
    ELSE IF DiskHit(cache_fetch(common_name), now)
    THEN [path |-> "disk", raised |-> "",
          result |-> Some(ManagedCertificate(cache_fetch(common_name)[1])),
          provisions |-> <<>>,
          memory |-> MemoryAfterDiskHit(common_name,
                         ManagedCertificate(cache_fetch(common_name)[1])),
          disk |-> cache] @@ head
    ELSE AfterProvision(common_name, head,
             provision_or_fallback(common_name, identifiers, acme1, acme2, next_serial))

\* Manager.managed_certificate from the fallback swap on
Swap(name, ids, swapped, now, acme1, acme2) ==
    IF ~swapped
    THEN AfterSwap(name, ids, [common_name |-> Some(name), swapped |-> FALSE],
                   now, acme1, acme2)
    ELSE IF fallback_identifier = None
    THEN [common_name |-> None, swapped |-> TRUE, path |-> "raise",
          raised |-> "IndexError", result |-> None, provisions |-> <<>>,
          memory |-> managed_certificates, disk |-> cache]
    ELSE AfterSwap(fallback_identifier[1], None,
                   [common_name |-> fallback_identifier, swapped |-> TRUE],
                   now, acme1, acme2)

\* Manager.managed_certificate, run to completion by one caller.  The outcome:
\*   common_name  the name looked up, after the fallback swap (None if the swap raised)
\*   swapped      whether the fallback swap happened
\*   path         "memory", "disk", "provision" or "raise"
\*   result       the ManagedCertificate returned (None if the call raised)
\*   provisions   the provision calls made
\*   memory, disk the memory map and the disk cache after the call
managed_certificate(name, ids, now, acme1, acme2) ==
    Swap(name, ids,
         ShouldFallback(denied_identifiers(
             [kind |-> "list", val |-> consolidate_identifiers(name, ids)])),
         now, acme1, acme2)

\* --------------------------------------------------------- anchor.PEMBundle

RECURSIVE Concat(_)
\* what "for pem in self._pems: file.write(pem)" leaves in the file
Concat(pems) == IF Len(pems) = 0 THEN <<>> ELSE Head(pems) \o Concat(Tail(pems))

\* a directory without files
NoFiles == <<>>

\* PEMBundle(): lists are objects of a heap, so that two references to one list
\* see each other's changes; object 1 is self._pems, object 2 is the list the
\* caller has taken from pems().  files are the temporary files, names counts the
\* names NamedTemporaryFile has made, and added is the sequence of the add_cert
\* arguments since the last clear_certs
NewPEMBundle ==
    [heap |-> <<<<>>, <<>>>>, _pems |-> 1, _path |-> None, files |-> NoFiles,
     names |-> 0, taken |-> None, added |-> <<>>]

\* PEMBundle.remove_path
remove_path(b) ==
    IF b._path # None /\ b._path[1] \in DOMAIN b.files
    THEN [b EXCEPT !.files = Without(b.files, b._path[1]), !._path = None]
    ELSE b

\* PEMBundle.add_cert(pem)
add_cert(b, pem) == remove_path([b EXCEPT !.heap[b._pems] = Append(@, pem)])

\* PEMBundle.write_to_path: NamedTemporaryFile makes a name not used before
write_to_path(b) ==
    LET removed == remove_path(b)
        name    == removed.names + 1
    IN  [removed EXCEPT !.names = name, !._path = Some(name),
                        !.files = Put(removed.files, name, Concat(removed.heap[removed._pems]))]

\* PEMBundle.clear_certs
clear_certs(b) == remove_path([b EXCEPT !.heap[b._pems] = <<>>])

\* pems() returning self._pems itself
pems_alias(b) == [heap |-> b.heap, ref |-> b._pems]

\* PEMBundle.pems: a new list with the elements of self._pems; ref is the object
\* returned
pems(b) == [heap |-> [b.heap EXCEPT ![2] = b.heap[b._pems]], ref |-> 2]

\* PEMBundle.path: the bundle after the call; the value returned is its _path
path(b) == IF b._path = None THEN write_to_path(b) ELSE b

\* ------------------------------------------------------ the explored inputs

\* timestamps are multiples of TimeUnit seconds, up to MaxTicks of them
TimeUnit == 43200
MaxTicks == 3
Times == {k * TimeUnit : k \in 0..MaxTicks}

\* the validity windows the CA hands out
Validities == { <<0, 4 * TimeUnit>>, <<TimeUnit, 5 * TimeUnit>> }

\* the answers of the CA to one provision call
AcmeAnswers ==
    {AcmeAnswer(FALSE, 0, 0)} \cup {AcmeAnswer(TRUE, v[1], v[2]) : v \in Validities}

\* the CA's answers to the provision calls of one run: the second call is made only
\* when the first has failed
AcmeRuns ==
    {<<a, AcmeAnswer(FALSE, 0, 0)>> : a \in AcmeAnswers \ {AcmeAnswer(FALSE, 0, 0)}}
        \cup {<<AcmeAnswer(FALSE, 0, 0), a>> : a \in AcmeAnswers}

\* the exploration stops issuing certificates after MaxSerial of them
MaxSerial == 2

\* the Configurations a Manager is built from
Configurations ==
    {[allow_identifiers |-> a, cache_dir |-> c,
      renew_before_seconds |-> 3 * TimeUnit, renew_before_fraction |-> <<1, 2>>] :
        a \in AllowLists, c \in BOOLEAN}

EmptyDict == <<>>
NoHistory == [issued |-> EmptyDict, latest |-> EmptyDict]
NoCall == [op |-> "none"]

\* ----------------------------------------- the Manager, one caller at a time

\* Manager.__init__ on a fresh cache directory
Init ==
    /\ configuration \in Configurations
    /\ managed_certificates = EmptyDict
    /\ cache = EmptyDict
    /\ next_serial = 1
    /\ history = NoHistory
    /\ call = NoCall
    /\ threads = <<>>
    /\ bundle = NewPEMBundle
    /\ work_dir = NoFiles

\* what the Manager held for the looked-up name when a call began
Before(name, ids, out) ==
    IF out.common_name = None
    THEN [entry |-> None, cert_data |-> None, latest |-> None,
          issued |-> IF name \in DOMAIN history.issued THEN history.issued[name] ELSE {}]
    ELSE [entry     |-> Get(managed_certificates, out.common_name[1]),
          cert_data |-> cache_fetch(out.common_name[1]),
          latest    |-> Get(history.latest, out.common_name[1]),
          issued    |-> IF name \in DOMAIN history.issued THEN history.issued[name] ELSE {}]

\* the record of what this Manager provisioned, after a call
HistoryAfter(name, ids, out) ==
    IF out.path # "provision" THEN history
    ELSE [issued |-> IF ids # None THEN history.issued
                     ELSE Put(history.issued, name,
                              (IF name \in DOMAIN history.issued
                               THEN history.issued[name] ELSE {}) \cup {out.result[1]}),
          latest |-> Put(history.latest, out.common_name[1], out.result[1])]

\* the CA's answers that a call managed_certificate(name, ids, now) can meet: the
\* CA is asked nothing by a call that returns from memory or from the disk cache,
\* or that raises before it provisions
AcmeRunsMet(name, ids, now) ==
    LET unanswered == <<AcmeAnswer(FALSE, 0, 0), AcmeAnswer(FALSE, 0, 0)>>
    IN  IF managed_certificate(name, ids, now, unanswered[1], unanswered[2]).provisions = <<>>
        THEN {unanswered}
        ELSE AcmeRuns

\* a caller runs Manager.managed_certificate(name, ids, now)
ManagedCertificateCall ==
    /\ call = NoCall
    /\ \E name \in Names, ids \in ExtraIdentifiers, now \in Times :
       \E acme \in AcmeRunsMet(name, ids, now) :
          LET out == managed_certificate(name, ids, now, acme[1], acme[2])
          IN  /\ out.path = "provision" => next_serial <= MaxSerial
              /\ managed_certificates' = out.memory
              /\ cache' = out.disk
              /\ next_serial' = IF out.path = "provision" THEN next_serial + 1
                                ELSE next_serial
              /\ history' = HistoryAfter(name, ids, out)
              /\ call' = [op |-> "managed_certificate", name |-> name, ids |-> ids,
                          now |-> now, out |-> out, before |-> Before(name, ids, out)]
    /\ UNCHANGED <<configuration, threads, bundle, work_dir>>

\* a caller runs Manager.provision_or_fallback(name, ids) directly
ProvisionOrFallbackCall ==
    /\ call = NoCall
    /\ \E name \in Names, ids \in ExtraIdentifiers, acme \in AcmeRuns :
          LET run == provision_or_fallback(name, ids, acme[1], acme[2], next_serial)
          IN  /\ run.result # None => next_serial <= MaxSerial
              /\ next_serial' = IF run.result # None THEN next_serial + 1 ELSE next_serial
              /\ call' = [op |-> "provision_or_fallback", name |-> name, ids |-> ids,
                          run |-> run]
    /\ UNCHANGED <<configuration, managed_certificates, cache, history, threads, bundle, work_dir>>

\* the process restarts: a new Manager over the same configuration and cache
\* directory (the tests reach the same state with managed_certificates.clear())
Restart ==
    /\ call = NoCall
    /\ managed_certificates # EmptyDict
    /\ managed_certificates' = EmptyDict
    /\ history' = NoHistory
    /\ UNCHANGED <<configuration, cache, next_serial, call, threads, bundle, work_dir>>

\* Manager.cache_clear
CacheClear ==
    /\ call = NoCall
    /\ configuration.cache_dir
    /\ cache # EmptyDict
    /\ cache' = EmptyDict
    /\ UNCHANGED <<configuration, managed_certificates, next_serial, history, call, threads, bundle, work_dir>>

\* the caller has taken the outcome of its call; the next operation can start
Return ==
    /\ call # NoCall
    /\ call' = NoCall
    /\ UNCHANGED <<configuration, managed_certificates, cache, next_serial, history, threads, bundle, work_dir>>

Next ==
    \/ ManagedCertificateCall
    \/ Restart
    \/ CacheClear
    \/ Return

Spec == Init /\ [][Next]_vars

\* ------------------------------------------- Manager.denied_identifiers alone

\* lists of at most MaxIdentifiers identifiers
MaxIdentifiers == 2
IdentifierLists == UNION {[1..n -> Identifiers] : n \in 0..MaxIdentifiers}

\* the arguments explored: None, one identifier, a list
DeniedArguments ==
    {[kind |-> "none", val |-> <<>>]}
        \cup {[kind |-> "str", val |-> x] : x \in Identifiers}
        \cup {[kind |-> "list", val |-> xs] : xs \in IdentifierLists}

InitPolicy ==
    /\ configuration \in Configurations
    /\ managed_certificates = EmptyDict
    /\ cache = EmptyDict
    /\ next_serial = 1
    /\ history = NoHistory
    /\ call = NoCall
    /\ threads = <<>>
    /\ bundle = NewPEMBundle
    /\ work_dir = NoFiles

\* a caller runs Manager.denied_identifiers(arg)
DeniedIdentifiersCall ==
    /\ \E arg \in DeniedArguments :
          call' = [op |-> "denied_identifiers", arg |-> arg,
                   result |-> denied_identifiers(arg)]
    /\ UNCHANGED <<configuration, managed_certificates, cache, next_serial, history, threads, bundle, work_dir>>

NextPolicy == DeniedIdentifiersCall

SpecPolicy == InitPolicy /\ [][NextPolicy]_vars

\* --------------------------------------- Manager.provision_or_fallback alone

NextProvision ==
    \/ ProvisionOrFallbackCall
    \/ Return

SpecProvision == Init /\ [][NextProvision]_vars

\* ------------------------------------------------ Manager.needs_renewal alone

\* the renew_before_seconds and renew_before_fraction values explored: inside the
\* validity windows explored, and the default, which exceeds them all
RenewBeforeSeconds ==
    {TimeUnit \div 2, TimeUnit, 3 * TimeUnit, DEFAULT_RENEW_BEFORE_SECONDS}
RenewBeforeFractions == { <<1, 2>>, <<1, 10>>, <<9, 10>> }

RenewalConfigurations ==
    {[allow_identifiers |-> <<HOST, WILDCARD>>, cache_dir |-> FALSE,
      renew_before_seconds |-> s, renew_before_fraction |-> f] :
        s \in RenewBeforeSeconds, f \in RenewBeforeFractions}

\* a certificate as needs_renewal reads it: its validity window
Windows == {[not_before |-> b, not_after |-> a] : b \in Times, a \in Times}
ValidWindows == {w \in Windows : w.not_before <= w.not_after}

InitRenewal ==
    /\ configuration \in RenewalConfigurations
    /\ managed_certificates = EmptyDict
    /\ cache = EmptyDict
    /\ next_serial = 1
    /\ history = NoHistory
    /\ call = NoCall
    /\ threads = <<>>
    /\ bundle = NewPEMBundle
    /\ work_dir = NoFiles

\* a caller runs Manager.needs_renewal(cert, now)
NeedsRenewalCall ==
    /\ \E cert \in ValidWindows, now \in Times :
          call' = [op |-> "needs_renewal", cert |-> cert, now |-> now,
                   result |-> needs_renewal(cert, now)]
    /\ UNCHANGED <<configuration, managed_certificates, cache, next_serial, history, threads, bundle, work_dir>>

NextRenewal == NeedsRenewalCall

SpecRenewal == InitRenewal /\ [][NextRenewal]_vars

\* ---------------------------------- Configuration.fallback_identifier alone

\* "*.*.bb.cc", which still starts with a wildcard once one "*." is stripped
DOUBLE == <<"*",".","*",".","b","b",".","c","c">>

\* the entries of the allow_identifiers lists explored, and the lists: Configuration
\* keeps any non-empty list of strings
AllowPool == {HOST, WILDCARD, SUBDOMAIN, INVALID, WIDE, DOUBLE}
MaxAllow == 3
ExploredAllowLists == UNION {[1..n -> AllowPool] : n \in 1..MaxAllow}

FallbackConfigurations ==
    {[allow_identifiers |-> a, cache_dir |-> FALSE,
      renew_before_seconds |-> 3 * TimeUnit, renew_before_fraction |-> <<1, 2>>] :
        a \in ExploredAllowLists}

InitFallback ==
    /\ configuration \in FallbackConfigurations
    /\ managed_certificates = EmptyDict
    /\ cache = EmptyDict
    /\ next_serial = 1
    /\ history = NoHistory
    /\ call = NoCall
    /\ threads = <<>>
    /\ bundle = NewPEMBundle
    /\ work_dir = NoFiles

\* a caller reads Configuration.fallback_identifier
FallbackIdentifierCall ==
    /\ call' = [op |-> "fallback_identifier",
                result |-> FallbackIdentifierOf(configuration.allow_identifiers)]
    /\ UNCHANGED <<configuration, managed_certificates, cache, next_serial, history, threads, bundle, work_dir>>

NextFallback == FallbackIdentifierCall

SpecFallback == InitFallback /\ [][NextFallback]_vars

\* ------------------------------------------------- Configuration.__init__

\* Configuration.DEFAULT_RENEW_BEFORE_FRACTION, 0.5, as a rational
DEFAULT_RENEW_BEFORE_FRACTION == <<1, 2>>

\* Configuration.DEFAULT_CHECK_EVERY_SECONDS
DEFAULT_CHECK_EVERY_SECONDS == 3600

\* An argument is [kind, val]: kind "none" is None, "int" an int, "float" a float
\* (val a rational <<numerator, denominator>>), "str" a str, "list" a list and
\* "other" a value of any other type.  An environment value is None or Some(str).
NoArg(val) == [kind |-> "none", val |-> val]
Arg(kind, val) == [kind |-> kind, val |-> val]

\* the argument an environment value is as a candidate
EnvArg(value) == IF value = None THEN NoArg(<<>>) ELSE Arg("str", value[1])

RECURSIVE Strip(_)
\* str.strip(), for blanks
Strip(s) ==
    IF Len(s) > 0 /\ Head(s) = " " THEN Strip(Tail(s))
    ELSE IF Len(s) > 0 /\ s[Len(s)] = " " THEN Strip(SubSeq(s, 1, Len(s) - 1))
    ELSE s

\* 10^k
PowerOfTen(k) == 10 ^ k

\* int(s) for a str: an optional sign and decimal digits; None for ValueError
ParseInt(s) ==
    LET t == Strip(s)
        signed == Len(t) > 0 /\ t[1] \in {"-", "+"}
        digits == IF signed THEN Tail(t) ELSE t
    IN  IF ~IsDigits(digits) THEN None
        ELSE IF signed /\ t[1] = "-" THEN Some(0 - DecimalValue(digits))
        ELSE Some(DecimalValue(digits))

\* float(s) for a str: an optional sign, decimal digits and an optional fraction
\* part, as a rational; None for ValueError
ParseFloat(s) ==
    LET t == Strip(s)
        signed == Len(t) > 0 /\ t[1] \in {"-", "+"}
        sign == IF signed /\ t[1] = "-" THEN 0 - 1 ELSE 1
        parts == Split(IF signed THEN Tail(t) ELSE t, ".")
    IN  IF Len(parts) = 1 /\ IsDigits(parts[1])
        THEN Some(<<sign * DecimalValue(parts[1]), 1>>)
        ELSE IF Len(parts) = 2 /\ IsDigits(parts[1] \o parts[2])
        THEN Some(<<sign * DecimalValue(parts[1] \o parts[2]), PowerOfTen(Len(parts[2]))>>)
        ELSE None

\* int(candidate): the value, or the exception raised
IntOf(candidate) ==
    CASE candidate.kind = "int" -> [raised |-> "", val |-> candidate.val]
      [] candidate.kind = "float" ->
             [raised |-> "",
              val |-> IF candidate.val[1] >= 0
                      THEN candidate.val[1] \div candidate.val[2]
                      ELSE 0 - ((0 - candidate.val[1]) \div candidate.val[2])]
      [] candidate.kind = "str" ->
             IF ParseInt(candidate.val) = None
             THEN [raised |-> "ValueError", val |-> 0]
             ELSE [raised |-> "", val |-> ParseInt(candidate.val)[1]]
      [] OTHER -> [raised |-> "TypeError", val |-> 0]

\* float(candidate): the value, or the exception raised
FloatOf(candidate) ==
    CASE candidate.kind = "int" -> [raised |-> "", val |-> <<candidate.val, 1>>]
      [] candidate.kind = "float" -> [raised |-> "", val |-> candidate.val]
      [] candidate.kind = "str" ->
             IF ParseFloat(candidate.val) = None
             THEN [raised |-> "ValueError", val |-> <<0, 1>>]
             ELSE [raised |-> "", val |-> ParseFloat(candidate.val)[1]]
      [] OTHER -> [raised |-> "TypeError", val |-> <<0, 1>>]

RECURSIVE ensure_positive_integer(_)
\* Configuration._ensure_positive_integer: ValueError and TypeError are passed over
ensure_positive_integer(candidates) ==
    IF Len(candidates) = 0 THEN [raised |-> "ConfigurationError", val |-> 0]
    ELSE IF IntOf(Head(candidates)).raised = "" /\ IntOf(Head(candidates)).val > 0
    THEN [raised |-> "", val |-> IntOf(Head(candidates)).val]
    ELSE ensure_positive_integer(Tail(candidates))

RECURSIVE FractionLoop(_)
\* the loop of Configuration._prepare_renew_before_fraction: only TypeError is
\* passed over, a ValueError of float() leaves the constructor
FractionLoop(candidates) ==
    IF Len(candidates) = 0 THEN [raised |-> "ConfigurationError", val |-> <<0, 1>>]
    ELSE IF FloatOf(Head(candidates)).raised = "ValueError"
    THEN [raised |-> "ValueError", val |-> <<0, 1>>]
    ELSE IF /\ FloatOf(Head(candidates)).raised = ""
            /\ 0 < FloatOf(Head(candidates)).val[1]
            /\ FloatOf(Head(candidates)).val[1] < FloatOf(Head(candidates)).val[2]
    THEN [raised |-> "", val |-> FloatOf(Head(candidates)).val]
    ELSE FractionLoop(Tail(candidates))

\* Configuration._prepare_renew_before_fraction
prepare_renew_before_fraction(renew_before_fraction, env) ==
    FractionLoop(<<renew_before_fraction, EnvArg(env.ACME_RENEW_BEFORE_FRACTION),
                   Arg("float", DEFAULT_RENEW_BEFORE_FRACTION)>>)

\* Configuration._prepare_renew_before_seconds with the environment value last
prepare_renew_before_seconds_env_last(explicit, env) ==
    ensure_positive_integer(<<explicit,
                              Arg("int", DEFAULT_RENEW_BEFORE_SECONDS),
                              EnvArg(env.ACME_RENEW_BEFORE_SECONDS)>>)

\* Configuration._prepare_renew_before_seconds
prepare_renew_before_seconds(explicit, env) ==
    ensure_positive_integer(<<explicit,
                              EnvArg(env.ACME_RENEW_BEFORE_SECONDS),
                              Arg("int", DEFAULT_RENEW_BEFORE_SECONDS)>>)

\* Configuration._prepare_check_every_seconds
prepare_check_every_seconds(check_every_seconds, env) ==
    ensure_positive_integer(<<check_every_seconds,
                              EnvArg(env.AUTO_CERT_CHECK_EVERY),
                              Arg("int", DEFAULT_CHECK_EVERY_SECONDS)>>)

\* Configuration._prepare_allow_identifiers with an empty list let through
prepare_allow_identifiers_unchecked(allow_identifiers, env) ==
    CASE allow_identifiers.kind = "list" -> [raised |-> "", val |-> allow_identifiers.val]
      [] allow_identifiers.kind = "str" ->
             [raised |-> "", val |-> Split(allow_identifiers.val, ",")]
      [] OTHER -> [raised |-> "", val |-> <<>>]

\* Configuration._prepare_allow_identifiers
prepare_allow_identifiers(allow_identifiers, env) ==
    LET prepared ==
            CASE allow_identifiers.kind = "list" -> Some(allow_identifiers.val)
              [] allow_identifiers.kind = "str" -> Some(Split(allow_identifiers.val, ","))
              [] allow_identifiers.kind = "none" ->
                     IF env.ACME_ALLOW_IDENTIFIERS # None /\ env.ACME_ALLOW_IDENTIFIERS[1] # <<>>
                     THEN Some(Split(env.ACME_ALLOW_IDENTIFIERS[1], ","))
                     ELSE None
              [] OTHER -> None
    IN  IF prepared = None \/ Len(prepared[1]) = 0
        THEN [raised |-> "ConfigurationError", val |-> <<>>]
        ELSE [raised |-> "", val |-> [i \in DOMAIN prepared[1] |-> Strip(prepared[1][i])]]

\* Configuration._prepare_directory_url: directory_url or the environment value
prepare_directory_url(directory_url, env) ==
    IF directory_url.kind = "str" /\ directory_url.val # <<>>
    THEN [raised |-> "", val |-> directory_url.val]
    ELSE IF env.ACME_DIRECTORY_URL # None
    THEN [raised |-> "", val |-> env.ACME_DIRECTORY_URL[1]]
    ELSE [raised |-> "ConfigurationError", val |-> <<>>]

\* isinstance(x, Acceptor), x being [class, arg]
IsAcceptor(x) == x.class \in {"AnyAcceptor", "RegexAcceptor", "TosAcceptor"}

\* Configuration._prepare_tos_acceptors; the argument is None, one object
\* [kind |-> "object", val |-> <<x>>] or a list of objects
prepare_tos_acceptors(tos_acceptors) ==
    IF tos_acceptors.kind = "list" /\ \A i \in DOMAIN tos_acceptors.val : IsAcceptor(tos_acceptors.val[i])
    THEN [raised |-> "", val |-> tos_acceptors.val]
    ELSE IF tos_acceptors.kind = "object" /\ IsAcceptor(tos_acceptors.val[1])
    THEN [raised |-> "", val |-> tos_acceptors.val]
    ELSE [raised |-> "ConfigurationError", val |-> <<>>]

\* Configuration._ensure_directory(cache_dir): mkdir may fail
ensure_directory(cache_dir, mkdir_ok) ==
    IF cache_dir /\ ~mkdir_ok
    THEN [raised |-> "ConfigurationError", val |-> FALSE]
    ELSE [raised |-> "", val |-> cache_dir]

\* the instance once every field is prepared, or the first exception raised, in
\* the order of the constructor's statements
ConfigurationOf(name, prepared) ==
    IF name = NoneValue
    THEN [raised |-> "ConfigurationError"]
    ELSE IF \E i \in DOMAIN prepared : prepared[i].raised # ""
    THEN [raised |-> prepared[CHOOSE i \in DOMAIN prepared :
                                  /\ prepared[i].raised # ""
                                  /\ \A j \in 1..(i - 1) : prepared[j].raised = ""].raised]
    ELSE [raised |-> "",
          name |-> name,
          allow_identifiers |-> prepared[1].val,
          check_every_seconds |-> prepared[2].val,
          directory_url |-> prepared[3].val,
          renew_before_fraction |-> prepared[4].val,
          renew_before_seconds |-> prepared[5].val,
          tos_acceptors |-> prepared[6].val,
          cache_dir |-> prepared[7].val]

\* Configuration(name, allow_identifiers, ..., env); work_dir is left None
Configuration(args) ==
    ConfigurationOf(args.name,
        <<prepare_allow_identifiers(args.allow_identifiers, args.env),
          prepare_check_every_seconds(args.check_every_seconds, args.env),
          prepare_directory_url(args.directory_url, args.env),
          prepare_renew_before_fraction(args.renew_before_fraction, args.env),
          prepare_renew_before_seconds(args.renew_before_seconds, args.env),
          prepare_tos_acceptors(args.tos_acceptors),
          ensure_directory(args.cache_dir, args.mkdir_ok)>>)

\* "https://ca.dev/acme" and "https://env.dev/acme"
DIRECTORY_URL == <<"h","t","t","p","s",":","/","/","c","a",".","d","e","v","/","a","c","m","e">>
ENV_DIRECTORY_URL == <<"h","t","t","p","s",":","/","/","e","n","v",".","d","e","v","/","a","c","m","e">>

\* terms-of-service acceptors, and a str in the place of one; an acceptor is
\* [class, flag, text]: text is the pattern of a RegexAcceptor and the tos_agreed
\* of a TosAcceptor when that is a str, flag says that tos_agreed is True
AnyAcceptor == [class |-> "AnyAcceptor", flag |-> FALSE, text |-> <<>>]
NotAnAcceptor == [class |-> "str", flag |-> FALSE, text |-> <<>>]

\* the constructor arguments made of the given values, field by field
ConfigurationArguments(names, allows, allow_envs, urls, url_envs, seconds, seconds_envs,
                       fractions, fraction_envs, everys, every_envs, acceptors, dirs) ==
    {[name |-> n, allow_identifiers |-> a, directory_url |-> u,
      renew_before_seconds |-> s, renew_before_fraction |-> f,
      check_every_seconds |-> c, tos_acceptors |-> t,
      cache_dir |-> d[1], mkdir_ok |-> d[2],
      env |-> [ACME_ALLOW_IDENTIFIERS |-> ae, ACME_DIRECTORY_URL |-> ue,
               ACME_RENEW_BEFORE_SECONDS |-> se, ACME_RENEW_BEFORE_FRACTION |-> fe,
               AUTO_CERT_CHECK_EVERY |-> ce]] :
        n \in names, a \in allows, ae \in allow_envs, u \in urls, ue \in url_envs,
        s \in seconds, se \in seconds_envs, f \in fractions, fe \in fraction_envs,
        c \in everys, ce \in every_envs, t \in acceptors, d \in dirs}

\* the constructor arguments explored.  First the required fields vary (name;
\* allow_identifiers as nothing, lists, "aa.bb.cc, *.aa.bb.cc", "" and a value of
\* another type; directory_url; tos_acceptors; a cache_dir that can or cannot be
\* created) next to a parsable or unparsable ACME_RENEW_BEFORE_FRACTION; then the
\* numeric fields vary, explicit and in the environment, next to tos_acceptors.
ExploredArguments ==
    ConfigurationArguments(
        {NoneValue, <<"a","c","m","e">>},
        {NoArg(<<>>), Arg("list", <<>>), Arg("list", <<SUBDOMAIN>>),
         Arg("str", HOST \o <<",", " ">> \o WILDCARD), Arg("str", <<>>), Arg("other", <<>>)},
        {None, Some(<<>>), Some(INVALID \o <<",">> \o SUBDOMAIN)},
        {NoArg(<<>>), Arg("str", DIRECTORY_URL)},
        {None, Some(ENV_DIRECTORY_URL)},
        {NoArg(0)}, {None},
        {NoArg(<<0, 1>>)}, {None, Some(<<"a","b","c">>), Some(<<"0",".","7","5">>)},
        {NoArg(0)}, {None},
        {NoArg(<<>>), Arg("object", <<AnyAcceptor>>),
         Arg("list", <<AnyAcceptor, NotAnAcceptor>>)},
        {<<FALSE, TRUE>>, <<TRUE, TRUE>>, <<TRUE, FALSE>>})
    \cup
    ConfigurationArguments(
        {<<"a","c","m","e">>},
        {Arg("list", <<HOST, WILDCARD>>)}, {None},
        {Arg("str", DIRECTORY_URL)}, {None},
        {NoArg(0), Arg("int", 0), Arg("int", 5)},
        {None, Some(<<"a","b","c">>), Some(<<"9">>)},
        {NoArg(<<0, 1>>), Arg("float", <<3, 2>>), Arg("float", <<1, 4>>)},
        {None, Some(<<"a","b","c">>), Some(<<"0",".","7","5">>)},
        {NoArg(0), Arg("int", 7)},
        {None, Some(<<"a","b","c">>), Some(<<"4","2">>)},
        {NoArg(<<>>), Arg("object", <<AnyAcceptor>>), Arg("list", <<>>)},
        {<<FALSE, TRUE>>})

\* a caller constructs Configuration(...)
ConfigurationCall ==
    /\ call = NoCall
    /\ \E args \in ExploredArguments :
          call' = [op |-> "Configuration", args |-> args, out |-> Configuration(args)]
    /\ UNCHANGED <<configuration, managed_certificates, cache, next_serial, history, threads, bundle, work_dir>>

NextConfiguration ==
    \/ ConfigurationCall
    \/ Return

\* ------------------------------------------------ the policy checks alone

\* "*.a.b.c", a wildcard over one-letter labels
SHORT_WILDCARD == <<"*",".","a",".","b",".","c">>
\* "x.a.b.c"
SHORT_HOST_C == <<"x",".","a",".","b",".","c">>
\* "x.a.b.d"
SHORT_HOST_D == <<"x",".","a",".","b",".","d">>
\* "*.AA.bb.cc", WILDCARD in another letter case
UPPER_WILDCARD == <<"*",".","A","A",".","b","b",".","c","c">>
\* "x.aa.bb.cc", a one-letter label under HOST
ONE_LETTER == <<"x",".","a","a",".","b","b",".","c","c">>
\* "x-.aa.bb.cc", a first label that ends in a hyphen
TRAILING_HYPHEN == <<"x","-",".","a","a",".","b","b",".","c","c">>
\* "-x.aa.bb.cc", a first label that starts with a hyphen
LEADING_HYPHEN == <<"-","x",".","a","a",".","b","b",".","c","c">>
\* "yy.xx.aa.bb.cc", two labels under HOST
MULTILEVEL == <<"y","y",".","x","x",".","a","a",".","b","b",".","c","c">>
\* "xx.*.aa.bb.cc", a wildcard that is not the first label
MIDDLE_SPLAT == <<"x","x",".","*",".","a","a",".","b","b",".","c","c">>
\* "XX.AA.bb.cc", SUBDOMAIN in another letter case
UPPER_SUBDOMAIN == <<"X","X",".","A","A",".","b","b",".","c","c">>
\* "aaa.bb.cc", a hostname that differs from HOST by one letter
NEAR_MISS == <<"a","a","a",".","b","b",".","c","c">>
\* "10.0.0.0/8"
NETWORK == <<"1","0",".","0",".","0",".","0","/","8">>
\* "10.1.2.3"
ADDRESS == <<"1","0",".","1",".","2",".","3">>
\* "not-valid", no check handles it
NOT_A_DESCRIPTION == <<"n","o","t","-","v","a","l","i","d">>

\* the addresses and networks asked of the IP policies: "10.1.2.256", which has no
\* such octet; "11.1.2.3", outside NETWORK; "10.1.0.0/16", inside it; "0.0.0.0/0",
\* around it; "10.1.2.3/8", which has host bits set
IPIdentifiers ==
    {<<"1","0",".","1",".","2",".","2","5","6">>,
     <<"1","1",".","1",".","2",".","3">>,
     <<"1","0",".","1",".","0",".","0","/","1","6">>,
     <<"0",".","0",".","0",".","0","/","0">>,
     <<"1","0",".","1",".","2",".","3","/","8">>}

\* the policy descriptions and the identifiers explored, None among both
\* "x.AA.bb.cc" and "x.bb.cc": one label in the place of the "*" of UPPER_WILDCARD
\* and of WIDE
UPPER_ONE_LETTER == <<"x",".","A","A",".","b","b",".","c","c">>
ONE_LETTER_WIDE == <<"x",".","b","b",".","c","c">>

CheckDescriptions ==
    {HOST, UPPERCASE, WILDCARD, UPPER_WILDCARD, SHORT_WILDCARD, WIDE,
     NETWORK, ADDRESS, NOT_A_DESCRIPTION, NoneValue}
CheckIdentifiers ==
    {HOST, UPPERCASE, NEAR_MISS, INVALID, WILDCARD, SUBDOMAIN, UPPER_SUBDOMAIN,
     ONE_LETTER, TRAILING_HYPHEN, LEADING_HYPHEN, MULTILEVEL, MIDDLE_SPLAT,
     SHORT_WILDCARD, SHORT_HOST_C, SHORT_HOST_D, ADDRESS, NoneValue}
        \cup IPIdentifiers
        \cup {UPPER_WILDCARD, UPPER_ONE_LETTER, WIDE, ONE_LETTER_WIDE}

\* the arguments of IdentifierPolicy.build explored: one description, or a list of
\* at most MaxIdentifiers
BuildArguments ==
    {[kind |-> "str", val |-> d] : d \in CheckDescriptions \ {NoneValue}}
        \cup {[kind |-> "list", val |-> ds] :
                  ds \in UNION {[1..n -> CheckDescriptions] : n \in 0..MaxIdentifiers}}

\* the policies are built and asked apart from any Manager
InitChecks ==
    /\ configuration = [allow_identifiers |-> <<HOST, WILDCARD>>, cache_dir |-> FALSE,
                        renew_before_seconds |-> DEFAULT_RENEW_BEFORE_SECONDS,
                        renew_before_fraction |-> <<1, 2>>]
    /\ managed_certificates = EmptyDict
    /\ cache = EmptyDict
    /\ next_serial = 1
    /\ history = NoHistory
    /\ call = NoCall
    /\ threads = <<>>
    /\ bundle = NewPEMBundle
    /\ work_dir = NoFiles

\* a caller constructs IdentifierPolicy(policy_description)
IdentifierPolicyCall ==
    /\ call = NoCall
    /\ \E d \in CheckDescriptions :
          call' = [op |-> "IdentifierPolicy", policy_description |-> d,
                   out |-> IdentifierPolicy(d)]
    /\ UNCHANGED <<configuration, managed_certificates, cache, next_serial, history, threads, bundle, work_dir>>

\* a caller runs allow(identifier) on a policy it has constructed
AllowCall ==
    /\ call = NoCall
    /\ \E d \in CheckDescriptions, x \in CheckIdentifiers :
          /\ IdentifierPolicy(d).raised = ""
          /\ call' = [op |-> "allow", policy_description |-> d,
                      policy |-> IdentifierPolicy(d).policy, identifier |-> x,
                      result |-> PolicyAllow(d, x)]
    /\ UNCHANGED <<configuration, managed_certificates, cache, next_serial, history, threads, bundle, work_dir>>

\* a caller runs IdentifierPolicy.build(policy_descriptions)
BuildCall ==
    /\ call = NoCall
    /\ \E arg \in BuildArguments :
          call' = [op |-> "build", policy_descriptions |-> arg,
                   out |-> IdentifierPolicy_build(arg)]
    /\ UNCHANGED <<configuration, managed_certificates, cache, next_serial, history, threads, bundle, work_dir>>

NextChecks ==
    \/ IdentifierPolicyCall
    \/ AllowCall
    \/ BuildCall
    \/ Return

SpecChecks == InitChecks /\ [][NextChecks]_vars

\* Configuration is constructed apart from any Manager as well
SpecConfiguration == InitChecks /\ [][NextConfiguration]_vars

\* ------------------------------------------------ terms of service

\* RegexAcceptor(regex) and acme.TosAcceptor(tos_agreed)
RegexAcceptor(regex) == [class |-> "RegexAcceptor", flag |-> FALSE, text |-> regex]
TosAcceptor(flag, text) == [class |-> "TosAcceptor", flag |-> flag, text |-> text]

\* re.compile(pattern).match(s) for a pattern made of an optional leading "^",
\* literal characters and ".", which stands for any character: the match is
\* anchored at the start of s and need not reach its end
RegexMatch(pattern, s) ==
    LET items == IF Len(pattern) > 0 /\ pattern[1] = "^" THEN Tail(pattern) ELSE pattern
    IN  /\ Len(items) <= Len(s)
        /\ \A i \in DOMAIN items : items[i] = "." \/ items[i] = s[i]

\* Acceptor.accept(tos_uri)
Acceptor_accept(acceptor, tos_uri) ==
    CASE acceptor.class = "AnyAcceptor" -> TRUE
      [] acceptor.class = "RegexAcceptor" -> RegexMatch(acceptor.text, tos_uri)
      [] acceptor.class = "TosAcceptor" -> acceptor.flag \/ acceptor.text = tos_uri

\* terms_of_service_agreed with all() for any()
EveryAcceptorAgreed(tos_acceptors, terms_of_service) ==
    IF terms_of_service = None THEN TRUE
    ELSE \A i \in DOMAIN tos_acceptors :
             Acceptor_accept(tos_acceptors[i], terms_of_service[1])

\* Manager.terms_of_service_agreed(client) for the terms of service the directory
\* advertises, None or Some(url)
terms_of_service_agreed(tos_acceptors, terms_of_service) ==
    IF terms_of_service = None THEN TRUE
    ELSE \E i \in DOMAIN tos_acceptors :
             Acceptor_accept(tos_acceptors[i], terms_of_service[1])

\* "https://ca.dev/tos", and a URL that differs from it where the pattern has "."
TOS_URL == <<"h","t","t","p","s",":","/","/","c","a",".","d","e","v","/","t","o","s">>
TOS_URL_VARIANT == <<"h","t","t","p","s",":","/","/","c","a","-","d","e","v","/","t","o","s">>

\* the terms of service a directory advertises
DirectoryTerms ==
    {None, Some(TOS_URL), Some(TOS_URL_VARIANT), Some(TOS_URL \o <<"2">>),
     Some(<<"f","o","o">>)}

\* the acceptors explored: any, the pattern "^https://ca.dev/tos", the pattern
\* "tos", which matches nowhere at the start, and TosAcceptor with True, False
\* and the URL
Acceptors ==
    {AnyAcceptor, RegexAcceptor(<<"^">> \o TOS_URL), RegexAcceptor(<<"t","o","s">>),
     TosAcceptor(TRUE, NoneValue), TosAcceptor(FALSE, NoneValue),
     TosAcceptor(FALSE, TOS_URL)}

\* lists of at most MaxAcceptors acceptors
MaxAcceptors == 2
AcceptorLists == UNION {[1..n -> Acceptors] : n \in 0..MaxAcceptors}

InitTos ==
    /\ configuration \in
           {[allow_identifiers |-> <<HOST, WILDCARD>>, cache_dir |-> FALSE,
             renew_before_seconds |-> DEFAULT_RENEW_BEFORE_SECONDS,
             renew_before_fraction |-> <<1, 2>>, tos_acceptors |-> acceptors] :
                acceptors \in AcceptorLists}
    /\ managed_certificates = EmptyDict
    /\ cache = EmptyDict
    /\ next_serial = 1
    /\ history = NoHistory
    /\ call = NoCall
    /\ threads = <<>>
    /\ bundle = NewPEMBundle
    /\ work_dir = NoFiles

\* the registration message is made: Manager.terms_of_service_agreed(client)
TermsOfServiceAgreedCall ==
    /\ call = NoCall
    /\ \E terms \in DirectoryTerms :
          call' = [op |-> "terms_of_service_agreed", terms_of_service |-> terms,
                   result |-> terms_of_service_agreed(configuration.tos_acceptors, terms)]
    /\ UNCHANGED <<configuration, managed_certificates, cache, next_serial, history, threads, bundle, work_dir>>

NextTos ==
    \/ TermsOfServiceAgreedCall
    \/ Return

SpecTos == InitTos /\ [][NextTos]_vars

\* ------------------------------------------------ the account key

\* urlparse(url).hostname of "scheme://host[:port]/path": the host, lowercased
Hostname(url) ==
    LET start == CHOOSE i \in 1..(Len(url) - 2) :
                     /\ SubSeq(url, i, i + 2) = <<":", "/", "/">>
                     /\ \A j \in 1..(i - 1) : SubSeq(url, j, j + 2) # <<":", "/", "/">>
        rest  == SubSeq(url, start + 3, Len(url))
        ends  == {i \in DOMAIN rest : rest[i] \in {"/", ":"}}
        stop  == IF ends = {} THEN Len(rest) + 1
                 ELSE CHOOSE i \in ends : \A j \in ends : i <= j
    IN  Lower(SubSeq(rest, 1, stop - 1))

\* Manager.account_key, the cache key: "+".join([contact or "default", host, "key"])
AccountCacheKey(contact, directory_url) ==
    Join(<<IF contact = None \/ contact[1] = <<>>
           THEN <<"d","e","f","a","u","l","t">> ELSE contact[1],
           Hostname(directory_url), <<"k","e","y">>>>, "+")

\* private_key.private_bytes(PEM, PKCS8, NoEncryption) and load_pem_private_key
PrivateBytes(private_key) == <<"PEM", private_key>>
LoadPemPrivateKey(serialized) == serialized[2]

\* Manager.account_key(); fresh is the key _create_account_key would generate
account_key(fresh) ==
    LET cache_key == AccountCacheKey(configuration.contact, configuration.directory_url)
        fetched   == cache_fetch(cache_key)
        serialized_account_key == IF fetched = None THEN PrivateBytes(fresh) ELSE fetched[1]
    IN  [cache_key |-> cache_key,
         generated |-> fetched = None,
         cache     |-> IF fetched = None THEN cache_store(cache_key, serialized_account_key)
                       ELSE cache,
         result    |-> LoadPemPrivateKey(serialized_account_key)]

\* the keys _create_account_key generates are told apart by a number
MaxKeys == 3

CONTACT == <<"m","e","@","a","a",".","b","b">>
DIRECTORY_URL_WITH_PORT == <<"h","t","t","p","s",":","/","/","C","A",".","d","e","v",":","4","4","3","/","a","c","m","e">>

InitAccount ==
    /\ configuration \in
           {[allow_identifiers |-> <<HOST, WILDCARD>>, cache_dir |-> c,
             renew_before_seconds |-> DEFAULT_RENEW_BEFORE_SECONDS,
             renew_before_fraction |-> <<1, 2>>, contact |-> m, directory_url |-> u] :
                c \in BOOLEAN, m \in {None, Some(<<>>), Some(CONTACT)},
                u \in {DIRECTORY_URL, DIRECTORY_URL_WITH_PORT, ENV_DIRECTORY_URL}}
    /\ managed_certificates = EmptyDict
    /\ cache = EmptyDict
    /\ next_serial = 1
    /\ history = NoHistory
    /\ call = NoCall
    /\ threads = <<>>
    /\ bundle = NewPEMBundle
    /\ work_dir = NoFiles

\* a caller asks for the account key: next_serial numbers the generated keys, and
\* history holds the keys handed out under each cache key
AccountKeyCall ==
    /\ call = NoCall
    /\ next_serial <= MaxKeys
    /\ LET out    == account_key(next_serial)
           before == IF out.cache_key \in DOMAIN history.issued
                     THEN history.issued[out.cache_key] ELSE {}
       IN  /\ cache' = out.cache
           /\ next_serial' = IF out.generated THEN next_serial + 1 ELSE next_serial
           /\ history' = [issued |-> Put(history.issued, out.cache_key, before \cup {out.result}),
                          latest |-> Put(history.latest, out.cache_key, out.result)]
           /\ call' = [op |-> "account_key", cache_key |-> out.cache_key,
                       generated |-> out.generated, before |-> before,
                       result |-> out.result]
    /\ UNCHANGED <<configuration, managed_certificates, threads, bundle, work_dir>>

NextAccount ==
    \/ AccountKeyCall
    \/ CacheClear
    \/ Return

SpecAccount == InitAccount /\ [][NextAccount]_vars

\* ------------------------------------------------ the SNI callbacks

\* what a callback leaves behind when it returns without asking the Manager
NotLookedUp ==
    [looked_up |-> FALSE, raised |-> "", context |-> None, provisions |-> <<>>,
     path |-> "none", memory |-> managed_certificates, disk |-> cache]

\* the callback from the call of managed_certificate on: an exception of the
\* Manager leaves the callback, otherwise ssl_socket.context becomes a context
\* loaded with the certificate; context is None while the socket keeps its own
AfterLookup(out) ==
    [looked_up |-> TRUE, raised |-> out.raised,
     context |-> IF out.result = None THEN None ELSE out.result,
     provisions |-> out.provisions, path |-> out.path,
     memory |-> out.memory, disk |-> out.disk]

\* SniCallback.sni_callback(ssl_socket, server_name, ssl_context); server_name is
\* None or Some(str)
sni_callback(server_name, now, acme1, acme2) ==
    IF server_name = None THEN NotLookedUp
    ELSE AfterLookup(managed_certificate(server_name[1], None, now, acme1, acme2))

\* acme.Manager.get_cert(server_names)
get_cert(server_names, now, acme1, acme2) ==
    managed_certificate(server_names[1], Some(server_names), now, acme1, acme2)

\* the sni_callback of acme.Manager.ssl_context: get_cert returns a certificate or
\* raises, so "if cert is None" is never taken
ssl_context_sni_callback(server_name, now, acme1, acme2) ==
    IF server_name = None THEN NotLookedUp
    ELSE AfterLookup(get_cert(<<server_name[1]>>, now, acme1, acme2))

\* the server names of the handshakes: none, "", an allowed and a denied name
ServerNames == {None, Some(EMPTY_NAME), Some(HOST), Some(INVALID)}

\* the CA's answers a handshake can meet
AcmeRunsOfHandshake(server_name, ids, now) ==
    IF server_name = None THEN {<<AcmeAnswer(FALSE, 0, 0), AcmeAnswer(FALSE, 0, 0)>>}
    ELSE AcmeRunsMet(server_name[1], ids, now)

\* the state after a callback has run
Handshake(op, server_name, now, out) ==
    /\ out.path = "provision" => next_serial <= MaxSerial
    /\ managed_certificates' = out.memory
    /\ cache' = out.disk
    /\ next_serial' = IF out.path = "provision" THEN next_serial + 1 ELSE next_serial
    /\ call' = [op |-> op, server_name |-> server_name, now |-> now, out |-> out]
    /\ UNCHANGED <<configuration, history, threads, bundle, work_dir>>

\* a TLS handshake runs the callback of SniCallback
SniCallbackCall ==
    /\ call = NoCall
    /\ \E server_name \in ServerNames, now \in Times :
       \E acme \in AcmeRunsOfHandshake(server_name, None, now) :
          Handshake("sni_callback", server_name, now,
                    sni_callback(server_name, now, acme[1], acme[2]))

\* a TLS handshake runs the callback of acme.Manager.ssl_context
SslContextCall ==
    /\ call = NoCall
    /\ \E server_name \in ServerNames, now \in Times :
       \E acme \in AcmeRunsOfHandshake(
                       server_name,
                       IF server_name = None THEN None ELSE Some(<<server_name[1]>>), now) :
          Handshake("ssl_context", server_name, now,
                    ssl_context_sni_callback(server_name, now, acme[1], acme[2]))

NextSni ==
    \/ SniCallbackCall
    \/ SslContextCall
    \/ Return

SpecSni == Init /\ [][NextSni]_vars

\* ------------------------------------- the Manager over a damaged cache

\* the texts found in place of a bundle: "", "not json" and "{}"
MalformedValues ==
    {Unparsed(<<>>), Unparsed(<<"n","o","t"," ","j","s","o","n">>), Unparsed(<<"{", "}">>)}

InitCorrupt ==
    /\ Init
    /\ configuration.cache_dir
    /\ configuration.allow_identifiers = <<HOST, WILDCARD>>

\* the cache directory is written from outside the Manager: the entry of HOST
\* becomes text that is no bundle
CorruptCache ==
    /\ call = NoCall
    /\ \E value \in MalformedValues : cache' = Put(cache, HOST, value)
    /\ cache' # cache
    /\ UNCHANGED <<configuration, managed_certificates, next_serial, history, call, threads, bundle, work_dir>>

NextCorrupt ==
    \/ ManagedCertificateCall
    \/ CorruptCache
    \/ Restart
    \/ Return

SpecCorrupt == InitCorrupt /\ [][NextCorrupt]_vars

\* ------------------------------- the Manager over a cache that fails to write

\* what dc.Cache(cache_dir).set(key, value) can do: store and return True, store
\* nothing and return False, or raise
StoreOutcomes == {"stored", "not stored", "raises"}

\* Manager.managed_certificate from "was_cached = self.cache_store(...)" on, for
\* the outcome the call would have with a cache that stores: the assignment to
\* self.managed_certificates is done by then, and nothing catches an exception
\* of cache_store
AfterCacheStore(out, store) ==
    IF out.path # "provision" \/ ~configuration.cache_dir \/ store = "stored"
    THEN out @@ [store |-> IF out.path = "provision" /\ configuration.cache_dir
                          THEN store ELSE "none"]
    ELSE IF store = "not stored"
    THEN [out EXCEPT !.disk = cache] @@ [store |-> store]
    ELSE [out EXCEPT !.disk = cache, !.path = "raise", !.raised = "CacheError",
                     !.result = None] @@ [store |-> store]

InitStore ==
    /\ Init
    /\ configuration.cache_dir
    /\ configuration.allow_identifiers = <<HOST, WILDCARD>>

\* a caller runs Manager.managed_certificate(name, None, now) for an allowed name
\* while the cache answers the write with one of StoreOutcomes
ManagedCertificateStoreCall ==
    /\ call = NoCall
    /\ \E name \in {HOST, SUBDOMAIN}, ids \in {None}, now \in Times, store \in StoreOutcomes :
       \E acme \in AcmeRunsMet(name, ids, now) :
          LET stored == managed_certificate(name, ids, now, acme[1], acme[2])
              out    == AfterCacheStore(stored, store)
          IN  /\ stored.path = "provision" => next_serial <= MaxSerial
              /\ managed_certificates' = out.memory
              /\ cache' = out.disk
              /\ next_serial' = IF stored.path = "provision" THEN next_serial + 1
                                ELSE next_serial
              /\ history' = HistoryAfter(name, ids, stored)
              /\ call' = [op |-> "managed_certificate", name |-> name, ids |-> ids,
                          now |-> now, out |-> out, before |-> Before(name, ids, stored)]
    /\ UNCHANGED <<configuration, threads, bundle, work_dir>>

NextStore ==
    \/ ManagedCertificateStoreCall
    \/ Restart
    \/ Return

SpecStore == InitStore /\ [][NextStore]_vars

\* ------------------------------------------ ManagedCertificate's names alone

\* the subject alternative name extensions explored: at most MaxSan DNS names, in
\* any order and with repetitions
MaxSan == 3
SanPool == {HOST, SUBDOMAIN, WILDCARD}
SanLists == UNION {[1..n -> SanPool] : n \in 0..MaxSan}

\* a caller reads identifiers and all_names of a ManagedCertificate whose leaf has
\* the subject cn and the extension san
NamesCall ==
    /\ call = NoCall
    /\ \E cn \in SanPool, san \in SanLists :
          LET cert == [common_name |-> cn, san_dns |-> san]
          IN  call' = [op |-> "names", cert |-> cert,
                       identifiers |-> ManagedCertificate_identifiers(cert),
                       all_names |-> ManagedCertificate_all_names(cert)]
    /\ UNCHANGED <<configuration, managed_certificates, cache, next_serial, history, threads, bundle, work_dir>>

NextNames ==
    \/ NamesCall
    \/ Return

SpecNames == InitChecks /\ [][NextNames]_vars

\* ------------------------------------------------- a PEMBundle and its caller

\* the PEMs of the tests, and the bounds of the exploration
PEM == <<"p","e","m">>
PEM2 == <<"p","e","m","2">>
Pems == {PEM, PEM2}
MaxPems == 2
MaxFiles == 3

BundleUnchanged ==
    UNCHANGED <<configuration, managed_certificates, cache, next_serial, history,
                threads, work_dir>>

AddCertCall ==
    /\ call = NoCall
    /\ Len(bundle.heap[bundle._pems]) < MaxPems
    /\ \E pem \in Pems :
          /\ bundle' = [add_cert(bundle, pem) EXCEPT !.added = Append(@, pem)]
          /\ call' = [op |-> "add_cert", pem |-> pem]
    /\ BundleUnchanged

ClearCertsCall ==
    /\ call = NoCall
    /\ bundle' = [clear_certs(bundle) EXCEPT !.added = <<>>]
    /\ call' = [op |-> "clear_certs"]
    /\ BundleUnchanged

\* the caller keeps the first list that pems() returns to it
PemsCall ==
    /\ call = NoCall
    /\ LET out == pems(bundle)
       IN  /\ call' = [op |-> "pems", result |-> out.heap[out.ref]]
           /\ bundle' = IF bundle.taken = None
                        THEN [bundle EXCEPT !.heap = out.heap, !.taken = Some(out.ref)]
                        ELSE bundle
    /\ BundleUnchanged

\* the caller appends to the list it has taken from pems()
AppendToTaken ==
    /\ call = NoCall
    /\ bundle.taken # None
    /\ Len(bundle.heap[bundle.taken[1]]) <= MaxPems
    /\ \E pem \in Pems :
          /\ bundle' = [bundle EXCEPT !.heap[bundle.taken[1]] = Append(@, pem)]
          /\ call' = [op |-> "append", pem |-> pem]
    /\ BundleUnchanged

WriteToPathCall ==
    /\ call = NoCall
    /\ bundle.names < MaxFiles
    /\ bundle' = write_to_path(bundle)
    /\ call' = [op |-> "write_to_path"]
    /\ BundleUnchanged

PathCall ==
    /\ call = NoCall
    /\ bundle._path = None => bundle.names < MaxFiles
    /\ bundle' = path(bundle)
    /\ call' = [op |-> "path", result |-> path(bundle)._path]
    /\ BundleUnchanged

\* something else deletes the bundle file
DeleteBundleFile ==
    /\ call = NoCall
    /\ bundle._path # None
    /\ bundle._path[1] \in DOMAIN bundle.files
    /\ bundle' = [bundle EXCEPT !.files = Without(bundle.files, bundle._path[1])]
    /\ UNCHANGED call
    /\ BundleUnchanged

NextBundle ==
    \/ AddCertCall
    \/ ClearCertsCall
    \/ PemsCall
    \/ AppendToTaken
    \/ WriteToPathCall
    \/ PathCall
    \/ DeleteBundleFile
    \/ Return

SpecBundle == InitChecks /\ [][NextBundle]_vars

\* ----------------------------------------------- the renewal rules alone

\* the before_seconds passed to the seconds rule: negative, zero, inside the
\* validity windows explored and beyond them all
RuleSeconds == {0 - TimeUnit, 0, 1, TimeUnit, 2 * TimeUnit, (MaxTicks + 1) * TimeUnit}

\* the before_fraction passed to the fraction rule: -0.42, 0, 1/3, 1/2, 1, 3/2
RuleFractions == { <<0 - 42, 100>>, <<0, 1>>, <<1, 3>>, <<1, 2>>, <<1, 1>>, <<3, 2>> }

RenewAfterFromSecondsCall ==
    /\ call = NoCall
    /\ \E cert \in ValidWindows, before_seconds \in RuleSeconds :
          call' = [op |-> "renew_after_from_seconds", cert |-> cert,
                   before_seconds |-> before_seconds,
                   result |-> RenewAfterFromSeconds(cert, before_seconds)]
    /\ UNCHANGED <<configuration, managed_certificates, cache, next_serial, history, threads, bundle, work_dir>>

RenewAfterFromFractionCall ==
    /\ call = NoCall
    /\ \E cert \in ValidWindows, before_fraction \in RuleFractions :
          call' = [op |-> "renew_after_from_fraction", cert |-> cert,
                   before_fraction |-> before_fraction,
                   result |-> RenewAfterFromFraction(cert, before_fraction)]
    /\ UNCHANGED <<configuration, managed_certificates, cache, next_serial, history, threads, bundle, work_dir>>

NextRules ==
    \/ RenewAfterFromSecondsCall
    \/ RenewAfterFromFractionCall
    \/ Return

SpecRules == InitChecks /\ [][NextRules]_vars

\* --------------------------------- the Manager under concurrent callers
\* SniCallback hands every TLS handshake to Manager.managed_certificate on one
\* shared Manager; the Manager holds no lock, so the calls of a threaded server
\* interleave wherever one of them waits on the disk or on the CA.

\* the callers explored
NThreads == 2
Threads == 1..NThreads

\* the clock readings of the callers: before and after the renewal point of the
\* certificates the CA hands out
ConcurrentTimes == {0, MaxTicks * TimeUnit}

\* a caller that has not called yet
IdleThread ==
    [pc |-> "idle", name |-> <<>>, ids |-> None, now |-> 0,
     common_name |-> None, identifiers |-> None, cert_data |-> None,
     result |-> None, raised |-> "", missed |-> FALSE, concurrent |-> {}]

InitConc ==
    /\ configuration \in Configurations
    /\ managed_certificates = EmptyDict
    /\ cache = EmptyDict
    /\ next_serial = 1
    /\ history = NoHistory
    /\ call = NoCall
    /\ threads = [t \in Threads |-> IdleThread]
    /\ bundle = NewPEMBundle
    /\ work_dir = NoFiles

\* the callers inside managed_certificate
Active == {t \in Threads : threads[t].pc \notin {"idle", "done"}}

\* Manager.managed_certificate up to the memory lookup: the fallback swap, then
\* self.managed_certificates.get(common_name) and the renewal check
Begin(t) ==
    /\ threads[t].pc = "idle"
    /\ \E name \in Names, ids \in ExtraIdentifiers, now \in ConcurrentTimes :
          LET full_identifiers == consolidate_identifiers(name, ids)
              denied_ids == denied_identifiers([kind |-> "list", val |-> full_identifiers])
              swapped == ShouldFallback(denied_ids)
              started == [threads[t] EXCEPT !.name = name, !.ids = ids, !.now = now,
                                            !.concurrent = Active]
          IN  IF swapped /\ fallback_identifier = None
              THEN threads' = [threads EXCEPT ![t] =
                       [started EXCEPT !.pc = "done", !.raised = "IndexError"]]
              ELSE LET common_name == IF swapped THEN fallback_identifier[1] ELSE name
                       identifiers == IF swapped THEN None ELSE ids
                       entry == Get(managed_certificates, common_name)
                       looked == [started EXCEPT !.common_name = Some(common_name),
                                                 !.identifiers = identifiers]
                   IN  IF MemoryHit(entry, now)
                       THEN threads' = [threads EXCEPT ![t] =
                                [looked EXCEPT !.pc = "done", !.result = entry]]
                       ELSE threads' = [threads EXCEPT ![t] =
                                [looked EXCEPT !.pc = "cache_fetch"]]
    /\ UNCHANGED <<configuration, managed_certificates, cache, next_serial, history, call, bundle, work_dir>>

\* Manager.managed_certificate, the disk-cache lookup; on a miss the caller enters
\* provision_or_fallback and its first provision call is in flight
CacheFetch(t) ==
    /\ threads[t].pc = "cache_fetch"
    /\ LET cert_data == cache_fetch(threads[t].common_name[1])
       IN  IF DiskHit(cert_data, threads[t].now)
           THEN threads' = [threads EXCEPT ![t] =
                    [@ EXCEPT !.pc = "done",
                              !.result = Some(ManagedCertificate(cert_data[1]))]]
           ELSE threads' = [threads EXCEPT ![t] =
                    [@ EXCEPT !.pc = "provisioning", !.missed = TRUE]]
    /\ UNCHANGED <<configuration, managed_certificates, cache, next_serial, history, call, bundle, work_dir>>

\* Manager.provision_or_fallback: the CA answers provision(common_name, identifiers);
\* on a failure the handler reads fallback_identifier and starts the second call
ProvisionReturns(t) ==
    /\ threads[t].pc = "provisioning"
    /\ \E acme \in AcmeAnswers :
          LET first == provision(threads[t].common_name[1], threads[t].identifiers,
                                 acme, next_serial)
          IN  IF first # None
              THEN /\ threads' = [threads EXCEPT ![t] =
                          [@ EXCEPT !.pc = "store", !.cert_data = first]]
                   /\ next_serial' = next_serial + 1
              ELSE /\ threads' = [threads EXCEPT ![t] =
                          IF fallback_identifier = None
                          THEN [@ EXCEPT !.pc = "done", !.raised = "IndexError"]
                          ELSE [@ EXCEPT !.pc = "fallback_provisioning"]]
                   /\ UNCHANGED next_serial
    /\ UNCHANGED <<configuration, managed_certificates, cache, history, call, bundle, work_dir>>

\* Manager.provision_or_fallback: the CA answers provision(fallback_identifier, None)
FallbackReturns(t) ==
    /\ threads[t].pc = "fallback_provisioning"
    /\ \E acme \in AcmeAnswers :
          LET second == provision(fallback_identifier[1], None, acme, next_serial)
          IN  IF second # None
              THEN /\ threads' = [threads EXCEPT ![t] =
                          [@ EXCEPT !.pc = "store", !.cert_data = second]]
                   /\ next_serial' = next_serial + 1
              ELSE /\ threads' = [threads EXCEPT ![t] =
                          [@ EXCEPT !.pc = "done", !.raised = "AcmeError"]]
                   /\ UNCHANGED next_serial
    /\ UNCHANGED <<configuration, managed_certificates, cache, history, call, bundle, work_dir>>

\* Manager.managed_certificate after provision_or_fallback has returned: the
\* certificate is parsed, stored in memory and in the disk cache, and returned
Store(t) ==
    /\ threads[t].pc = "store"
    /\ LET stored == ManagedCertificate(threads[t].cert_data[1])
       IN  /\ managed_certificates' =
                  MemoryAfterProvision(threads[t].common_name[1], stored)
           /\ cache' = cache_store(threads[t].common_name[1], threads[t].cert_data[1])
           /\ threads' = [threads EXCEPT ![t] =
                  [@ EXCEPT !.pc = "done", !.result = Some(stored)]]
    /\ UNCHANGED <<configuration, next_serial, history, call, bundle, work_dir>>

NextConc ==
    \E t \in Threads :
        \/ Begin(t)
        \/ CacheFetch(t)
        \/ ProvisionReturns(t)
        \/ FallbackReturns(t)
        \/ Store(t)

SpecConc == InitConc /\ [][NextConc]_vars

\* ------------------------------------ account_key under concurrent callers

\* a caller of account_key that has not called yet
IdleAccountThread == [pc |-> "idle", serialized |-> None, result |-> None]

\* Managers share one cache directory; history.issued holds the keys written
\* under each cache key
InitAccountConc ==
    /\ configuration \in
           {[allow_identifiers |-> <<HOST, WILDCARD>>, cache_dir |-> TRUE,
             renew_before_seconds |-> DEFAULT_RENEW_BEFORE_SECONDS,
             renew_before_fraction |-> <<1, 2>>, contact |-> m, directory_url |-> u] :
                m \in {None, Some(<<>>), Some(CONTACT)},
                u \in {DIRECTORY_URL, DIRECTORY_URL_WITH_PORT, ENV_DIRECTORY_URL}}
    /\ managed_certificates = EmptyDict
    /\ cache = EmptyDict
    /\ next_serial = 1
    /\ history = NoHistory
    /\ call = NoCall
    /\ threads = [t \in Threads |-> IdleAccountThread]
    /\ bundle = NewPEMBundle
    /\ work_dir = NoFiles

\* account_key up to "serialized_account_key = self.cache_fetch(cache_key)": a
\* caller that finds the entry loads it and returns
AccountFetch(t) ==
    /\ threads[t].pc = "idle"
    /\ LET fetched == cache_fetch(AccountCacheKey(configuration.contact,
                                                  configuration.directory_url))
       IN  threads' = [threads EXCEPT ![t] =
               IF fetched = None THEN [@ EXCEPT !.pc = "generate"]
               ELSE [@ EXCEPT !.pc = "done", !.serialized = fetched,
                              !.result = Some(LoadPemPrivateKey(fetched[1]))]]
    /\ UNCHANGED <<configuration, managed_certificates, cache, next_serial, history, call, bundle, work_dir>>

\* _create_account_key and private_bytes
AccountGenerate(t) ==
    /\ threads[t].pc = "generate"
    /\ threads' = [threads EXCEPT ![t] =
           [@ EXCEPT !.pc = "store", !.serialized = Some(PrivateBytes(next_serial))]]
    /\ next_serial' = next_serial + 1
    /\ UNCHANGED <<configuration, managed_certificates, cache, history, call, bundle, work_dir>>

\* cache_store(cache_key, serialized_account_key), then the key is loaded from the
\* caller's own serialized_account_key and returned
AccountStore(t) ==
    /\ threads[t].pc = "store"
    /\ LET cache_key == AccountCacheKey(configuration.contact, configuration.directory_url)
           written   == IF cache_key \in DOMAIN history.issued
                        THEN history.issued[cache_key] ELSE {}
       IN  /\ cache' = cache_store(cache_key, threads[t].serialized[1])
           /\ history' = [issued |-> Put(history.issued, cache_key,
                                         written \cup {threads[t].serialized[1]}),
                          latest |-> Put(history.latest, cache_key, threads[t].serialized[1])]
    /\ threads' = [threads EXCEPT ![t] =
           [@ EXCEPT !.pc = "done",
                     !.result = Some(LoadPemPrivateKey(threads[t].serialized[1]))]]
    /\ UNCHANGED <<configuration, managed_certificates, next_serial, call, bundle, work_dir>>

NextAccountConc ==
    \E t \in Threads :
        \/ AccountFetch(t)
        \/ AccountGenerate(t)
        \/ AccountStore(t)

SpecAccountConc == InitAccountConc /\ [][NextAccountConc]_vars

\* ------------------------------- the files of work_dir under concurrent handshakes

\* the content of a file of work_dir: the PEM it is written from and how much of
\* it has reached the file.  open(path, "wb") leaves "none" of it; the write
\* reaches the file whole, or in part first when it exceeds the buffer
FileContent(pem, written) == [pem |-> pem, written |-> written]

\* ManagedCertificate.certificate_path and private_key_path
certificate_path(cert) == <<cert.serial, "crt">>
private_key_path(cert) == <<cert.serial, "key">>

\* the bundle that an earlier run of the Manager has left in the disk cache
CachedBundle == provision(HOST, None, AcmeAnswer(TRUE, 0, 4 * TimeUnit), 1)[1]

\* a handshake that has not started yet
IdleHandshake == [pc |-> "idle", cert |-> None, read_crt |-> None, read_key |-> None]

\* a Manager with a cache_dir whose cache holds a certificate that needs no
\* renewal; the files of its serial may be there from an earlier call
InitFiles ==
    /\ configuration = [allow_identifiers |-> <<HOST, WILDCARD>>, cache_dir |-> TRUE,
                        renew_before_seconds |-> 3 * TimeUnit,
                        renew_before_fraction |-> <<1, 2>>]
    /\ managed_certificates = EmptyDict
    /\ cache = (HOST :> CachedBundle)
    /\ next_serial = 2
    /\ history = NoHistory
    /\ call = NoCall
    /\ threads = [t \in Threads |-> IdleHandshake]
    /\ bundle = NewPEMBundle
    /\ work_dir \in
           {NoFiles,
            (certificate_path(ManagedCertificate(CachedBundle)) :>
                 FileContent(CachedBundle.cert_pem, "all")) @@
            (private_key_path(ManagedCertificate(CachedBundle)) :>
                 FileContent(CachedBundle.key_pem, "all"))}

FilesUnchanged ==
    UNCHANGED <<configuration, managed_certificates, cache, next_serial, history, call, bundle>>

\* sni_callback calls managed_certificate(HOST) at time 0: a disk-cache hit builds
\* a ManagedCertificate, whose constructor goes on to persist_pems
HandshakeBegins(t) ==
    /\ threads[t].pc = "idle"
    /\ LET out == managed_certificate(HOST, None, 0, AcmeAnswer(FALSE, 0, 0),
                                      AcmeAnswer(FALSE, 0, 0))
       IN  /\ out.path \in {"memory", "disk"}
           /\ threads' = [threads EXCEPT ![t] =
                  [@ EXCEPT !.pc = IF out.path = "disk" THEN "open_crt" ELSE "load_crt",
                            !.cert = out.result]]
    /\ UNCHANGED work_dir
    /\ FilesUnchanged

\* persist_pems: open(self.certificate_path, "wb") creates or empties the file
OpenCrt(t) ==
    /\ threads[t].pc = "open_crt"
    /\ work_dir' = Put(work_dir, certificate_path(threads[t].cert[1]),
                       FileContent(cache[HOST].cert_pem, "none"))
    /\ threads' = [threads EXCEPT ![t] = [@ EXCEPT !.pc = "write_crt"]]
    /\ FilesUnchanged

\* persist_pems: cert_file.write(self.cert_pem) and the close of the file
WriteCrt(t) ==
    /\ threads[t].pc = "write_crt"
    /\ \E written \in {"some", "all"} :
          /\ written = "some" =>
                 work_dir[certificate_path(threads[t].cert[1])].written = "none"
          /\ work_dir' = Put(work_dir, certificate_path(threads[t].cert[1]),
                             FileContent(cache[HOST].cert_pem, written))
          /\ threads' = [threads EXCEPT ![t] =
                 [@ EXCEPT !.pc = IF written = "all" THEN "open_key" ELSE "write_crt"]]
    /\ FilesUnchanged

\* persist_pems: open(self.private_key_path, "wb")
OpenKey(t) ==
    /\ threads[t].pc = "open_key"
    /\ work_dir' = Put(work_dir, private_key_path(threads[t].cert[1]),
                       FileContent(cache[HOST].key_pem, "none"))
    /\ threads' = [threads EXCEPT ![t] = [@ EXCEPT !.pc = "write_key"]]
    /\ FilesUnchanged

\* persist_pems: key_file.write(self.key_pem) and the close of the file; the
\* constructor and managed_certificate return
WriteKey(t) ==
    /\ threads[t].pc = "write_key"
    /\ work_dir' = Put(work_dir, private_key_path(threads[t].cert[1]),
                       FileContent(cache[HOST].key_pem, "all"))
    /\ threads' = [threads EXCEPT ![t] = [@ EXCEPT !.pc = "load_crt"]]
    /\ FilesUnchanged

\* new_context.load_cert_chain reads the certificate file
ReadCrt(t) ==
    /\ threads[t].pc = "load_crt"
    /\ threads' = [threads EXCEPT ![t] =
           [@ EXCEPT !.pc = "load_key",
                     !.read_crt = Get(work_dir, certificate_path(threads[t].cert[1]))]]
    /\ UNCHANGED work_dir
    /\ FilesUnchanged

\* new_context.load_cert_chain reads the key file
ReadKey(t) ==
    /\ threads[t].pc = "load_key"
    /\ threads' = [threads EXCEPT ![t] =
           [@ EXCEPT !.pc = "done",
                     !.read_key = Get(work_dir, private_key_path(threads[t].cert[1]))]]
    /\ UNCHANGED work_dir
    /\ FilesUnchanged

\* the next handshake is served by the thread
HandshakeEnds(t) ==
    /\ threads[t].pc = "done"
    /\ threads' = [threads EXCEPT ![t] = IdleHandshake]
    /\ UNCHANGED work_dir
    /\ FilesUnchanged

NextFiles ==
    \E t \in Threads :
        \/ HandshakeBegins(t)
        \/ OpenCrt(t)
        \/ WriteCrt(t)
        \/ OpenKey(t)
        \/ WriteKey(t)
        \/ ReadCrt(t)
        \/ ReadKey(t)
        \/ HandshakeEnds(t)

SpecFiles == InitFiles /\ [][NextFiles]_vars

\* =================================================================== claims

\* some configured policy allows x
AllowedByAny(x) ==
    \E i \in DOMAIN configuration.allow_identifiers :
        PolicyAllow(configuration.allow_identifiers[i], x)

IsManagedCertificateCall == call.op = "managed_certificate"

\* the memory entry, resp. the disk-cache bundle, found under the looked-up name
\* when the call began did not need renewal at the call's now
EntryWasFresh ==
    call.before.entry # None /\ ~needs_renewal(call.before.entry[1], call.now)
BundleWasFresh ==
    /\ call.before.cert_data # None
    /\ ~needs_renewal(ManagedCertificate(call.before.cert_data[1]), call.now)
EntryWasStale ==
    call.before.entry # None /\ needs_renewal(call.before.entry[1], call.now)
BundleWasStale ==
    /\ call.before.cert_data # None
    /\ needs_renewal(ManagedCertificate(call.before.cert_data[1]), call.now)

\* C1: managed_certificate swaps in the fallback identifier if and only if every
\* consolidated identifier is denied by the aggregate policy; with one identifier
\* allowed the requested common name is kept; after a swap, a provisioned
\* certificate's common name is the fallback identifier.
C1_FallbackIffEveryIdentifierDenied ==
    IsManagedCertificateCall =>
        LET full == consolidate_identifiers(call.name, call.ids)
            every_denied == \A i \in DOMAIN full : ~AllowedByAny(full[i])
        IN  /\ call.out.swapped <=> every_denied
            /\ ~every_denied => call.out.common_name = Some(call.name)
            /\ (call.out.swapped /\ call.out.path = "provision") =>
                   /\ fallback_identifier # None
                   /\ call.out.result[1].common_name = fallback_identifier[1]

\* the list denied_identifiers works on
DeniedInput ==
    IF call.arg.kind = "none" THEN <<>>
    ELSE IF call.arg.kind = "str" THEN <<call.arg.val>>
    ELSE call.arg.val

C3_EveryEarlierCertificateIsReturned ==
    (IsManagedCertificateCall /\ call.ids = None) =>
        \A earlier \in call.before.issued :
            ~needs_renewal(earlier, call.now) =>
                /\ call.out.result # None
                /\ call.out.result[1].serial = earlier.serial
                /\ call.out.provisions = <<>>

\* C3 as amended: the certificate most recently provisioned under the looked-up
\* name on this Manager is returned, without provisioning, by every call at whose
\* now it does not need renewal.
C3_LatestCertificateIsReturned ==
    IsManagedCertificateCall =>
        ((call.before.latest # None /\ ~needs_renewal(call.before.latest[1], call.now)) =>
            /\ call.out.result # None
            /\ call.out.result[1].serial = call.before.latest[1].serial
            /\ call.out.provisions = <<>>)

\* a second call for a name finds the certificate the first provisioned still fresh
C3_Witness ==
    /\ IsManagedCertificateCall
    /\ call.ids = None
    /\ call.before.latest # None
    /\ call.before.latest[1] \in call.before.issued
    /\ ~needs_renewal(call.before.latest[1], call.now)
    /\ call.out.path = "memory"

\* C4: with no fresh memory entry and a disk-cache bundle that does not need
\* renewal, the call returns a certificate with the bundle's serial and makes no
\* provision call.
C4_FreshDiskBundleIsServed ==
    (IsManagedCertificateCall /\ ~EntryWasFresh /\ BundleWasFresh) =>
        /\ call.out.result # None
        /\ call.out.result[1].serial = call.before.cert_data[1].cert_pem.serial_number
        /\ call.out.provisions = <<>>

\* after a restart the memory map is empty and the bundle on disk is still fresh
C4_Witness ==
    /\ IsManagedCertificateCall
    /\ call.before.entry = None
    /\ BundleWasFresh
    /\ call.out.path = "disk"

\* C5: a call served from a fresh disk-cache bundle leaves the returned certificate
\* in managed_certificates under the looked-up name.
C5_DiskHitPublishesToMemory ==
    (IsManagedCertificateCall /\ call.out.path = "disk") =>
        Get(managed_certificates, call.out.common_name[1]) = call.out.result

\* C6: when the memory entry and the disk-cache bundle both need renewal, a call
\* that returns has provisioned: it returns a certificate with a new serial, which
\* is then the memory entry and the disk-cache bundle of the looked-up name; a
\* call that raises has at least attempted to provision.
C6_StaleEverywhereIsReprovisioned ==
    (IsManagedCertificateCall /\ EntryWasStale /\ BundleWasStale) =>
        /\ Len(call.out.provisions) >= 1
        /\ call.out.raised = "" =>
            /\ call.out.path = "provision"
            /\ call.out.result[1].serial # call.before.entry[1].serial
            /\ call.out.result[1].serial # call.before.cert_data[1].cert_pem.serial_number
            /\ Get(managed_certificates, call.out.common_name[1]) = call.out.result
            /\ cache_fetch(call.out.common_name[1]) # None
            /\ ManagedCertificate(cache_fetch(call.out.common_name[1])[1]) = call.out.result[1]

\* the certificate held in memory and on disk is stale and a new one is returned
C6_Witness ==
    /\ IsManagedCertificateCall
    /\ EntryWasStale
    /\ BundleWasStale
    /\ call.out.path = "provision"
    /\ call.before.entry[1].serial = call.before.cert_data[1].cert_pem.serial_number

\* C7: provision_or_fallback calls provision(name, ids); if and only if that fails
\* it calls provision(fallback_identifier, None), once; it returns the result of
\* the call that succeeded and raises when the second call fails.
C7_FallbackIffFirstProvisionFails ==
    call.op = "provision_or_fallback" =>
        LET made == call.run.provisions
        IN  /\ Len(made) \in {1, 2}
            /\ made[1].common_name = call.name
            /\ made[1].identifiers = call.ids
            /\ Len(made) = 2 <=> ~made[1].ok
            /\ Len(made) = 2 =>
                   /\ fallback_identifier = Some(made[2].common_name)
                   /\ made[2].identifiers = None
            /\ call.run.result # None <=> made[Len(made)].ok
            /\ call.run.raised # "" <=> ~made[Len(made)].ok

\* the common name of the provision call a caller has in flight, None without one
InFlight(t) ==
    IF threads[t].pc = "provisioning" THEN threads[t].common_name
    ELSE IF threads[t].pc = "fallback_provisioning" THEN fallback_identifier
    ELSE None

\* C8: no two callers have a provision call in flight for the same common name.
C8_SingleFlight ==
    \A t1 \in DOMAIN threads, t2 \in DOMAIN threads :
        (t1 # t2 /\ InFlight(t1) # None) => InFlight(t1) # InFlight(t2)

\* two calls overlapped: one began while the other was inside managed_certificate
Overlapped(t1, t2) ==
    t1 \in threads[t2].concurrent \/ t2 \in threads[t1].concurrent

\* C9: two callers whose calls overlapped, that requested the same name, found no
\* fresh certificate in memory or on disk and returned, return the same serial.
C9_ConcurrentCallersShareOneCertificate ==
    \A t1 \in DOMAIN threads, t2 \in DOMAIN threads :
        (/\ t1 # t2
         /\ Overlapped(t1, t2)
         /\ threads[t1].name = threads[t2].name
         /\ threads[t1].ids = threads[t2].ids
         /\ threads[t1].missed /\ threads[t2].missed
         /\ threads[t1].result # None /\ threads[t2].result # None)
            => threads[t1].result[1].serial = threads[t2].result[1].serial

\* the renewal candidates of C10 that are not null: each rule's timestamp when it
\* lies in the validity window, and not_after itself
C10_Candidates ==
    LET cert == call.cert
        span == cert.not_after - cert.not_before
        fraction == configuration.renew_before_fraction
    IN  {t \in { cert.not_after - configuration.renew_before_seconds,
                 cert.not_after - ((span * fraction[1]) \div fraction[2]),
                 cert.not_after - 86400,
                 cert.not_after } :
            cert.not_before <= t /\ t <= cert.not_after}

\* needs_renewal is now > the least candidate
C10_Equation ==
    call.result <=>
        \E least \in C10_Candidates :
            /\ \A c \in C10_Candidates : least <= c
            /\ call.now > least

\* now lies in the last renew_before_seconds of the certificate
C10_InLastSeconds ==
    /\ call.now > call.cert.not_after - configuration.renew_before_seconds
    /\ call.now <= call.cert.not_after

\* C10 as claimed: needs_renewal is now > the least non-null candidate; hence it
\* holds inside the last renew_before_seconds and fails before every candidate.
C10_NeedsRenewalAsClaimed ==
    call.op = "needs_renewal" =>
        /\ C10_Equation
        /\ C10_InLastSeconds => call.result
        /\ (\A c \in C10_Candidates : call.now < c) => ~call.result

\* C10 as amended: the same, with the last renew_before_seconds counting only when
\* renew_before_seconds does not exceed the validity span.
C10_NeedsRenewalAmended ==
    call.op = "needs_renewal" =>
        /\ C10_Equation
        /\ (/\ C10_InLastSeconds
            /\ configuration.renew_before_seconds
                   <= call.cert.not_after - call.cert.not_before) => call.result
        /\ (\A c \in C10_Candidates : call.now < c) => ~call.result

\* a certificate in its last renew_before_seconds, before the other rules fire
C10_Witness ==
    /\ call.op = "needs_renewal"
    /\ C10_InLastSeconds
    /\ configuration.renew_before_seconds <= call.cert.not_after - call.cert.not_before
    /\ call.now <= call.cert.not_after - 86400
    /\ call.result

\* C11: needs_renewal is true at every now strictly later than not_after, whatever
\* renew_before_seconds and renew_before_fraction are.
C11_ExpiredNeedsRenewal ==
    (call.op = "needs_renewal" /\ call.now > call.cert.not_after) => call.result

\* an expired certificate, under a renew_before_seconds longer than its whole life
C11_Witness ==
    /\ call.op = "needs_renewal"
    /\ call.now > call.cert.not_after
    /\ configuration.renew_before_seconds > call.cert.not_after - call.cert.not_before
    /\ call.result

\* C12: needs_renewal(cert, cert.not_before) is false when renew_before_seconds is
\* smaller than the validity span and renew_before_fraction is below 1.
C12_FreshAtNotBefore ==
    (/\ call.op = "needs_renewal"
     /\ call.now = call.cert.not_before
     /\ configuration.renew_before_seconds < call.cert.not_after - call.cert.not_before
     /\ configuration.renew_before_fraction[1] < configuration.renew_before_fraction[2])
        => ~call.result

\* a certificate at its not_before whose life is shorter than the one-day fallback
C12_Witness ==
    /\ call.op = "needs_renewal"
    /\ call.now = call.cert.not_before
    /\ configuration.renew_before_seconds < call.cert.not_after - call.cert.not_before
    /\ call.cert.not_after - call.cert.not_before < FALLBACK_RENEW_BEFORE_SECONDS
    /\ ~call.result

\* entry i of allow_identifiers with one leading "*." taken off
C13_Stripped(i) ==
    LET entry == configuration.allow_identifiers[i]
    IN  IF Len(entry) >= 2 /\ SubSeq(entry, 1, 2) = <<"*", ".">>
        THEN SubSeq(entry, 3, Len(entry))
        ELSE entry

\* the entries that have at least two dots once stripped
C13_Survivors ==
    {i \in DOMAIN configuration.allow_identifiers : CountDots(C13_Stripped(i)) >= 2}

\* C13: the fallback identifier is the stripped entry with the fewest dots among
\* those with at least two; among entries with as few dots, the first in the list.
C13_FallbackIsFirstMinimum ==
    (call.op = "fallback_identifier" /\ C13_Survivors # {}) =>
        \E k \in C13_Survivors :
            /\ \A j \in C13_Survivors :
                   \/ CountDots(C13_Stripped(k)) < CountDots(C13_Stripped(j))
                   \/ CountDots(C13_Stripped(k)) = CountDots(C13_Stripped(j)) /\ k <= j
            /\ call.result = Some(C13_Stripped(k))

\* a tie between the second and the third entry, after an entry with more dots
C13_Witness ==
    /\ call.op = "fallback_identifier"
    /\ configuration.allow_identifiers = <<SUBDOMAIN, INVALID, WILDCARD>>
    /\ call.result = Some(INVALID)

\* C14: a Manager exists only over a configuration that has a fallback identifier,
\* so no request is the first to report that there is none.
C14_MissingFallbackFailsConstruction ==
    IsManagedCertificateCall =>
        /\ fallback_identifier # None
        /\ call.out.raised # "IndexError"

\* C15: when every entry of allow_identifiers builds a policy and the fallback
\* identifier exists, one of these policies allows the fallback identifier.
C15_FallbackIsAllowed ==
    (/\ call.op = "fallback_identifier"
     /\ call.result # None
     /\ \A i \in DOMAIN configuration.allow_identifiers :
            PolicyClass(configuration.allow_identifiers[i]) # "none")
        => \E i \in DOMAIN configuration.allow_identifiers :
               PolicyAllow(configuration.allow_identifiers[i], call.result[1])

\* C16: a call for an allowed common name and allowed extra identifiers, whose
\* provision calls (if any) all succeeded, returns a certificate for exactly the
\* requested names, whatever the Manager served before under that common name.
C16_CertificateCoversRequestedNames ==
    (/\ IsManagedCertificateCall
     /\ call.out.result # None
     /\ DeniedLoop(consolidate_identifiers(call.name, call.ids)) = <<>>
     /\ \A i \in DOMAIN call.out.provisions : call.out.provisions[i].ok)
        => /\ call.out.result[1].common_name = call.name
           /\ ManagedCertificate_identifiers(call.out.result[1])
                  = Sorted(consolidate_identifiers(call.name, call.ids))
           /\ ManagedCertificate_all_names(call.out.result[1])
                  = <<call.name>> \o Sorted(Tail(consolidate_identifiers(call.name, call.ids)))

\* the checks in their dispatch order, and what each handles
C17_Order == <<"ForIPAddress", "ForHostname", "ForWildcardHostname">>
C17_Handles(check, description) ==
    CASE check = "ForIPAddress" -> ForIPAddress_handles(description)
      [] check = "ForHostname" -> ForHostname_handles(description)
      [] check = "ForWildcardHostname" -> ForWildcardHostname_handles(description)

\* out is owned by the first check in order that handles description, and is the
\* PolicyCheckError exactly when no check handles it
C17_OwnedByFirst(description, out) ==
    /\ out.raised \in {"", "PolicyCheckError"}
    /\ out.raised = "PolicyCheckError" <=>
           \A k \in DOMAIN C17_Order : ~C17_Handles(C17_Order[k], description)
    /\ out.raised = "" =>
           \E k \in DOMAIN C17_Order :
               /\ out.policy = C17_Order[k]
               /\ C17_Handles(C17_Order[k], description)
               /\ \A j \in 1..(k - 1) : ~C17_Handles(C17_Order[j], description)

\* C17: a policy is owned by the first check, in the order IP/CIDR, exact host,
\* wildcard host, that handles its description; construction raises
\* PolicyCheckError when none does; build returns one policy per description, in
\* the order given.
C17_FirstHandlingCheckOwns ==
    /\ call.op = "IdentifierPolicy" =>
           C17_OwnedByFirst(call.policy_description, call.out)
    /\ (call.op = "build" /\ call.out.raised = "") =>
           LET descriptions == IF call.policy_descriptions.kind = "str"
                               THEN <<call.policy_descriptions.val>>
                               ELSE call.policy_descriptions.val
           IN  /\ Len(call.out.policies) = Len(descriptions)
               /\ \A i \in DOMAIN descriptions :
                      /\ call.out.policies[i].policy_description = descriptions[i]
                      /\ C17_OwnedByFirst(descriptions[i], call.out.policies[i])

\* a list of a wildcard host and an address is built into two policies in that order
C17_Witness ==
    /\ call.op = "build"
    /\ call.policy_descriptions = [kind |-> "list", val |-> <<WILDCARD, ADDRESS>>]
    /\ call.out.raised = ""
    /\ call.out.policies[1].policy = "ForWildcardHostname"
    /\ call.out.policies[2].policy = "ForIPAddress"

\* C18: an exact-host policy for D allows I iff I is a string and lowercase(I) =
\* lowercase(D).
C18_ExactHostAllowsIffEqualIgnoringCase ==
    (call.op = "allow" /\ call.policy = "ForHostname") =>
        (call.result <=>
            /\ call.identifier # NoneValue
            /\ Lower(call.identifier) = Lower(call.policy_description))

\* an identifier in another letter case is allowed
C18_Witness ==
    /\ call.op = "allow"
    /\ call.policy = "ForHostname"
    /\ call.policy_description = HOST
    /\ call.identifier = UPPERCASE
    /\ call.result

\* a valid DNS label: an alphanumeric, then alphanumerics or hyphens, ending in an
\* alphanumeric
C19_ValidLabel(l) ==
    /\ Len(l) >= 1
    /\ IsAlphaNumeric(l[1])
    /\ IsAlphaNumeric(l[Len(l)])
    /\ \A i \in DOMAIN l : IsAlphaNumericHyphen(l[i])

\* C19: a wildcard policy "*.S" allows an identifier iff it is a string whose
\* first label is "*" or a valid DNS label and whose other labels, joined by "."
\* and case-folded, equal S.
C19_WildcardAllowsIffOneValidLabel ==
    (call.op = "allow" /\ call.policy = "ForWildcardHostname") =>
        (call.result <=>
            /\ call.identifier # NoneValue
            /\ LET labels == Split(call.identifier, ".")
               IN  /\ labels[1] = <<"*">> \/ C19_ValidLabel(labels[1])
                   /\ Lower(Join(Tail(labels), "."))
                          = SubSeq(call.policy_description, 3, Len(call.policy_description)))

\* C20: a policy can be built from "*.a.b.c"; it denies "x.a.b.d" and allows
\* "x.a.b.c" and "*.a.b.c".
C20_ShortWildcardExample ==
    /\ (call.op = "IdentifierPolicy" /\ call.policy_description = SHORT_WILDCARD) =>
           call.out.raised = ""
    /\ (call.op = "allow" /\ call.policy_description = SHORT_WILDCARD) =>
           /\ call.identifier = SHORT_HOST_D => ~call.result
           /\ call.identifier \in {SHORT_HOST_C, SHORT_WILDCARD} => call.result

\* a <= b on addresses, octet by octet
C21_AddressLeq(a, b) ==
    \/ a = b
    \/ \E i \in 1..4 : a[i] < b[i] /\ \A j \in 1..(i - 1) : a[j] = b[j]

\* the address ranges of two networks meet
C21_RangesMeet(m, n) ==
    /\ C21_AddressLeq(m.address, BroadcastAddress(n))
    /\ C21_AddressLeq(n.address, BroadcastAddress(m))

C22_Constructed == call.op = "Configuration" /\ call.out.raised = ""

\* C22: every Configuration that construction returns has a non-empty
\* allow_identifiers, renew_before_seconds > 0, 0 < renew_before_fraction < 1 and
\* check_every_seconds > 0.
C22_InstanceInvariant ==
    C22_Constructed =>
        /\ Len(call.out.allow_identifiers) > 0
        /\ call.out.renew_before_seconds > 0
        /\ 0 < call.out.renew_before_fraction[1]
        /\ call.out.renew_before_fraction[1] < call.out.renew_before_fraction[2]
        /\ call.out.check_every_seconds > 0

\* an instance built from explicit values out of range and an unparsable
\* environment value
C22_Witness ==
    /\ C22_Constructed
    /\ call.args.renew_before_seconds = Arg("int", 0)
    /\ call.args.env.ACME_RENEW_BEFORE_SECONDS = Some(<<"a","b","c">>)
    /\ call.args.renew_before_fraction = Arg("float", <<3, 2>>)
    /\ call.out.renew_before_seconds = DEFAULT_RENEW_BEFORE_SECONDS
    /\ call.args.env.ACME_RENEW_BEFORE_FRACTION = Some(<<"0",".","7","5">>)
    /\ 4 * call.out.renew_before_fraction[1] = 3 * call.out.renew_before_fraction[2]

C24_UnparsableEnvironmentIsSkipped ==
    call.op = "Configuration" =>
        /\ call.out.raised # "ValueError"
        /\ (/\ call.out.raised = ""
            /\ call.args.renew_before_seconds.kind = "none"
            /\ call.args.env.ACME_RENEW_BEFORE_SECONDS = Some(<<"a","b","c">>))
               => call.out.renew_before_seconds = DEFAULT_RENEW_BEFORE_SECONDS
        /\ (/\ call.out.raised = ""
            /\ call.args.check_every_seconds.kind = "none"
            /\ call.args.env.AUTO_CERT_CHECK_EVERY = Some(<<"a","b","c">>))
               => call.out.check_every_seconds = DEFAULT_CHECK_EVERY_SECONDS
        /\ (/\ call.out.raised = ""
            /\ call.args.renew_before_fraction.kind = "none"
            /\ call.args.env.ACME_RENEW_BEFORE_FRACTION = Some(<<"a","b","c">>))
               => call.out.renew_before_fraction = DEFAULT_RENEW_BEFORE_FRACTION

\* the constructor arguments lack a required field
C25_Misconfigured ==
    \/ call.args.name = NoneValue
    \/ call.args.allow_identifiers.kind = "other"
    \/ call.args.allow_identifiers = Arg("list", <<>>)
    \/ /\ call.args.allow_identifiers.kind = "none"
       /\ call.args.env.ACME_ALLOW_IDENTIFIERS \in {None, Some(<<>>)}
    \/ call.args.directory_url.kind = "none" /\ call.args.env.ACME_DIRECTORY_URL = None
    \/ call.args.tos_acceptors.kind = "none"
    \/ /\ call.args.tos_acceptors.kind = "list"
       /\ \E i \in DOMAIN call.args.tos_acceptors.val :
              call.args.tos_acceptors.val[i] = NotAnAcceptor

\* C25: constructing a Configuration raises ConfigurationError when name is None,
\* when allow_identifiers resolves to nothing or has an unsupported type, when
\* directory_url is in neither the arguments nor the environment, or when
\* tos_acceptors is missing or holds a value that is not an Acceptor.
C25_MisconfigurationRaisesConfigurationError ==
    (call.op = "Configuration" /\ C25_Misconfigured) =>
        call.out.raised = "ConfigurationError"

\* whether an acceptor accepts a URL, in the words of the claim
C26_Accepts(acceptor, url) ==
    \/ acceptor.class = "AnyAcceptor"
    \/ acceptor.class = "RegexAcceptor" /\ RegexMatch(acceptor.text, url)
    \/ acceptor.class = "TosAcceptor" /\ (acceptor.flag \/ acceptor.text = url)

\* C26: terms_of_service_agreed is true iff the directory advertises no terms of
\* service URL or at least one configured acceptor accepts the advertised URL.
C26_AgreedIffSomeAcceptorAccepts ==
    call.op = "terms_of_service_agreed" =>
        (call.result <=>
            \/ call.terms_of_service = None
            \/ \E i \in DOMAIN configuration.tos_acceptors :
                   C26_Accepts(configuration.tos_acceptors[i], call.terms_of_service[1]))

\* a pattern that rejects the URL next to an explicit acceptor that holds it
C26_Witness ==
    /\ call.op = "terms_of_service_agreed"
    /\ configuration.tos_acceptors = <<RegexAcceptor(<<"t","o","s">>), TosAcceptor(FALSE, TOS_URL)>>
    /\ call.terms_of_service = Some(TOS_URL)
    /\ call.result

\* C27: the first account_key() call generates a key and stores exactly one cache
\* entry under "{contact or 'default'}+{directory host}+key"; every later call for
\* the same contact and directory host returns that same key, reconstituted from
\* the cache, without generating or storing a new one.
C27_AccountKeyIsGeneratedOnce ==
    call.op = "account_key" =>
        IF call.before = {}
        THEN /\ call.generated
             /\ DOMAIN cache = {call.cache_key}
             /\ cache[call.cache_key] = PrivateBytes(call.result)
        ELSE /\ ~call.generated
             /\ call.before = {call.result}
             /\ DOMAIN cache = {call.cache_key}

\* C28: the SNI callback invoked with a null or empty server name returns at once:
\* it does not ask the Manager for a certificate, so no provisioning starts, and
\* it does not replace the socket's SSL context.
C28_NoServerNameNoLookup ==
    /\ call.op \in {"sni_callback", "ssl_context"}
    /\ call.server_name \in {None, Some(EMPTY_NAME)}
    => /\ ~call.out.looked_up
       /\ call.out.provisions = <<>>
       /\ call.out.context = None

\* C29: when the first provision attempt and the fallback attempt of a handshake
\* both fail, the SNI callback returns null instead of raising and leaves the
\* socket's SSL context unchanged.
C29_ProvisioningFailureReturnsNull ==
    /\ call.op \in {"sni_callback", "ssl_context"}
    /\ call.out.path = "raise"
    /\ Len(call.out.provisions) = 2
    => /\ call.out.raised = ""
       /\ call.out.context = None

\* C30: when the disk-cache value under the common name is not a parseable
\* certificate bundle, managed_certificate treats the entry as absent: it goes on
\* to provisioning and returns the new certificate rather than raising.
C30_MalformedEntryIsAbsent ==
    /\ call.op = "managed_certificate"
    /\ call.out.path # "memory"
    /\ call.before.cert_data # None
    /\ ~IsBundle(call.before.cert_data[1])
    => /\ call.out.provisions # <<>>
       /\ call.out.raised \notin {"JSONDecodeError", "TypeError"}

\* C31: when writing the newly provisioned bundle to the disk cache fails,
\* managed_certificate still returns the new certificate, the certificate is in
\* managed_certificates under the common name, and the failure of the cache does
\* not reach the caller.
C31_CacheWriteFailureIsSwallowed ==
    /\ call.op = "managed_certificate"
    /\ call.out.store \in {"not stored", "raises"}
    => /\ call.out.raised = ""
       /\ call.out.result # None
       /\ Get(managed_certificates, call.out.common_name[1]) = call.out.result

\* a list of str in ascending order, and one without repetitions
C32_Ascending(xs) == \A i, j \in DOMAIN xs : i < j => ~StrLess(xs[j], xs[i])
C32_Distinct(xs) == \A i, j \in DOMAIN xs : i # j => xs[i] # xs[j]

\* C32: for every ManagedCertificate, whatever the order and multiplicity of the
\* DNS names of the leaf: identifiers is sorted and has no duplicates, all_names
\* starts with common_name, and common_name occurs in all_names once, followed by
\* the remaining identifiers in sorted order.
C32_NamesAreSortedAndDeduplicated ==
    call.op = "names" =>
        /\ C32_Ascending(call.identifiers)
        /\ C32_Distinct(call.identifiers)
        /\ call.all_names[1] = call.cert.common_name
        /\ Cardinality({i \in DOMAIN call.all_names :
                            call.all_names[i] = call.cert.common_name}) = 1
        /\ C32_Ascending(Tail(call.all_names))
        /\ Range(Tail(call.all_names)) = Range(call.identifiers) \ {call.cert.common_name}

\* C33: after add_cert(p) the value p is in pems() until clear_certs is called,
\* and pems() returns a copy: appending to a list it returned never changes what
\* later calls return.  Both hold when every pems() returns the add_cert
\* arguments since the last clear_certs, in their order.
C33_PemsReturnsWhatWasAdded ==
    call.op = "pems" => call.result = bundle.added

\* pems() after the caller has appended to the list an earlier pems() gave it
C33_Witness ==
    /\ call.op = "pems"
    /\ bundle.taken # None
    /\ bundle.heap[bundle.taken[1]] = <<PEM, PEM2>>
    /\ call.result = <<PEM>>

\* C39: after any sequence of add_cert, clear_certs, write_to_path and path calls,
\* with the bundle file possibly deleted by something else in between, the file
\* at the path that path() returns exists and holds the concatenation of the
\* PEMs held, in insertion order.
C39_PathHoldsTheBundle ==
    call.op = "path" =>
        /\ call.result # None
        /\ call.result[1] \in DOMAIN bundle.files
        /\ bundle.files[call.result[1]] = Concat(bundle.added)

\* a timestamp of the validity window of a certificate
C34_InWindow(cert, t) == cert.not_before <= t /\ t <= cert.not_after

\* C34: each renewal rule yields null or a timestamp in [not_before, not_after]:
\* the seconds rule returns not_after - seconds when that lies in the window and
\* null otherwise, as when seconds exceeds the validity span; the fraction rule
\* returns null for a fraction outside [0, 1] and a timestamp in the window for
\* every fraction in [0, 1].
C34_RulesStayInTheWindow ==
    /\ call.op = "renew_after_from_seconds" =>
          /\ call.result = IF C34_InWindow(call.cert, call.cert.not_after - call.before_seconds)
                           THEN Some(call.cert.not_after - call.before_seconds)
                           ELSE None
          /\ call.before_seconds > call.cert.not_after - call.cert.not_before
                 => call.result = None
    /\ call.op = "renew_after_from_fraction" =>
          IF call.before_fraction[1] < 0 \/ call.before_fraction[1] > call.before_fraction[2]
          THEN call.result = None
          ELSE call.result # None /\ C34_InWindow(call.cert, call.result[1])

\* the fraction rule gives a timestamp strictly inside a window
C34_Witness ==
    /\ call.op = "renew_after_from_fraction"
    /\ call.before_fraction = <<1, 3>>
    /\ call.result # None
    /\ call.cert.not_before < call.result[1]
    /\ call.result[1] < call.cert.not_after

\* C35: under concurrent account_key() calls for one contact and directory host
\* over an empty cache, the account key is written to the cache once, and every
\* caller ends up with the key that the cache holds.
C35_OneAccountKeyUnderConcurrency ==
    LET cache_key == AccountCacheKey(configuration.contact, configuration.directory_url)
    IN  /\ DOMAIN threads = Threads
        /\ \A t \in Threads : threads[t].pc = "done"
        => /\ Cardinality(history.issued[cache_key]) = 1
           /\ \A t \in Threads :
                  threads[t].result = Some(LoadPemPrivateKey(cache[cache_key]))

\* C36: when managed_certificate raises because both provision attempts failed,
\* the managed_certificates map and the disk-cache entry under the requested
\* common name are as they were before the call: a stale certificate is neither
\* removed nor replaced, and no entry is added.
C36_FailedProvisioningChangesNothing ==
    [][(/\ call'.op = "managed_certificate"
        /\ call.op = "none"
        /\ call'.out.path = "raise"
        /\ Len(call'.out.provisions) = 2)
       => /\ managed_certificates' = managed_certificates
          /\ Get(cache', call'.name) = Get(cache, call'.name)]_vars

\* both attempts failed while a certificate in need of renewal was held in memory
\* and in the disk cache
C36_Witness ==
    /\ call.op = "managed_certificate"
    /\ call.out.path = "raise"
    /\ Len(call.out.provisions) = 2
    /\ call.before.entry # None
    /\ call.before.cert_data # None
    /\ Get(managed_certificates, call.name) = call.before.entry
    /\ Get(cache, call.name) = call.before.cert_data

\* C37: after any sequence of managed_certificate calls, every entry of
\* managed_certificates and every bundle of the disk cache is stored under the
\* common name of the certificate it holds, also when the request was served by
\* the fallback retry after a failed first provision attempt.
C37_EntriesAreKeyedByCommonName ==
    /\ \A k \in DOMAIN managed_certificates : managed_certificates[k].common_name = k
    /\ \A k \in DOMAIN cache : ManagedCertificate(cache[k]).common_name = k

\* C38: whenever a handshake thread reads the certificate or key file of a serial
\* under work_dir, the file holds the complete PEM of that serial, also while
\* concurrent managed_certificate calls rewrite the files of the same serial.
C38_ReadersSeeCompleteFiles ==
    \A t \in DOMAIN threads :
        /\ threads[t].pc \in {"load_key", "done"} =>
               threads[t].read_crt = Some(FileContent(cache[HOST].cert_pem, "all"))
        /\ threads[t].pc = "done" =>
               threads[t].read_key = Some(FileContent(cache[HOST].key_pem, "all"))

\* C40: wildcard matching is case-insensitive on the description side as on the
\* identifier side: for every description D = "*.S" that the wildcard check
\* handles, in any letter case, the policy built from D allows D itself and
\* allows "x.S".
C40_WildcardAllowsItsOwnDescription ==
    /\ call.op = "allow"
    /\ ForWildcardHostname_handles(call.policy_description)
    /\ call.identifier \in {call.policy_description,
                            <<"x">> \o Tail(call.policy_description)}
    => call.result

====
